---- MODULE Spec2Model ----
(***************************************************************************)
(* Strict encoding (LNPBP-7): the StrictEncode / StrictDecode codecs of    *)
(* the primitive types, the extended-precision integers and the bitcoin   *)
(* domain types, together with the byte-vector convenience entry points.  *)
(*                                                                         *)
(* Representation of integers.  The model checker's integers are 32 bits  *)
(* wide, so a w-bit Rust integer is held as the sequence of its base-2^16 *)
(* limbs, least significant limb first (one limb below 256 for the 8-bit  *)
(* types).  A signed integer is held as sign and magnitude; its two's     *)
(* complement image is computed by to_le_bytes / from_le_bytes.           *)
(***************************************************************************)
EXTENDS Integers, Sequences, FiniteSets, TLC

VARIABLES op, ty, data, onCurve, value, sink0, result, kept, thread, heap

vars == <<op, ty, data, onCurve, value, sink0, result, kept, thread, heap>>

(***************************************************************************)
(* Bounds of the explored inputs.                                          *)
(***************************************************************************)
\* most bytes an input may carry beyond the encoded size of its type
MaxExtra == 2

(***************************************************************************)
(* Errors (enum Error) and results.                                        *)
(***************************************************************************)
IoError(k) == [kind |-> "Io", what |-> k]

ExceedMaxItems(n) == [kind |-> "ExceedMaxItems", n |-> n]

EnumValueNotKnown(name, v) == [kind |-> "EnumValueNotKnown", name |-> name, v |-> v]

ValueOutOfRange(name, lo, hi, v) ==
    [kind |-> "ValueOutOfRange", name |-> name, lo |-> lo, hi |-> hi, v |-> v]

DataNotEntirelyConsumed == [kind |-> "DataNotEntirelyConsumed"]

DataIntegrityError(msg) == [kind |-> "DataIntegrityError", msg |-> msg]

\* Result<T, Error> of a decode, with the position of the source after it
Ok(v, pos) == [tag |-> "Ok", val |-> v, pos |-> pos]

Err(e, pos) == [tag |-> "Err", err |-> e, pos |-> pos]

\* the call did not return: the thread panicked with this message
Panic(msg) == [tag |-> "Panic", msg |-> msg]

\* Result<usize, Error> of an encode, with the sink after it
Wrote(n, s) == [tag |-> "Ok", n |-> n, sink |-> s]

WriteErr(e, s) == [tag |-> "Err", err |-> e, sink |-> s]

(***************************************************************************)
(* Byte source and byte sink (std::io::Read / std::io::Write).             *)
(***************************************************************************)
Min(a, b) == IF a < b THEN a ELSE b

\* Read::read_exact on a slice or a Cursor: all n bytes or UnexpectedEof
read_exact(d, pos, n) ==
    IF pos + n <= Len(d)
    THEN Ok(SubSeq(d, pos + 1, pos + n), pos + n)
    ELSE Err(IoError("UnexpectedEof"), pos)

\* a growable sink (Vec<u8>, Cursor<Vec<u8>>) or one with room for `room` bytes
VecSink(buf) == [buf |-> buf, limited |-> FALSE, room |-> 0]

SliceSink(buf, room) == [buf |-> buf, limited |-> TRUE, room |-> room]

\* Write::write: takes as many bytes as the sink has room for
write(s, bytes) ==
    LET n == IF s.limited THEN Min(s.room, Len(bytes)) ELSE Len(bytes)
    IN  Wrote(n, [s EXCEPT !.buf = s.buf \o SubSeq(bytes, 1, n),
                           !.room = IF s.limited THEN s.room - n ELSE 0])

\* Write::write_all: every byte, or WriteZero once the sink takes no more
write_all(s, bytes) ==
    LET w == write(s, bytes)
    IN  IF w.n = Len(bytes) THEN w ELSE WriteErr(IoError("WriteZero"), w.sink)

(***************************************************************************)
(* Little-endian images of the integers.                                   *)
(***************************************************************************)
NLimbs(n) == (n + 1) \div 2

\* a function on 1..n as an explicit tuple
Tup(f) == f \o <<>>

\* uN::to_le_bytes: the n bytes of v, least significant first; each limb
\* gives its low byte and then its high byte
to_le_bytes(v, n) ==
    Tup([i \in 1..n |->
        IF i % 2 = 1 THEN v[(i + 1) \div 2] % 256 ELSE v[i \div 2] \div 256])

\* uN::from_le_bytes
from_le_bytes(b) ==
    Tup([i \in 1..NLimbs(Len(b)) |->
        b[2 * i - 1] + (IF 2 * i <= Len(b) THEN 256 * b[2 * i] ELSE 0)])

\* the largest limb of an n-byte integer
LimbMax(n) == IF n = 1 THEN 255 ELSE 65535

IsZero(m) == \A i \in 1..Len(m) : m[i] = 0

RECURSIVE AddCarry(_, _, _, _)
\* m + c over n bytes, as <<limbs, carry out>>; limbs from index i upwards
AddCarry(m, c, n, i) ==
    IF i > Len(m) THEN <<m, c>>
    ELSE LET s == m[i] + c
         IN  AddCarry([m EXCEPT ![i] = s % (LimbMax(n) + 1)],
                      s \div (LimbMax(n) + 1), n, i + 1)

\* 2^(8n) - m modulo 2^(8n): complement every bit and add one
Negate(m, n) ==
    AddCarry(Tup([i \in 1..Len(m) |-> LimbMax(n) - m[i]]), 1, n, 1)[1]

\* the sign bit of an n-byte two's complement image
SignBit(u, n) == u[Len(u)] >= (LimbMax(n) + 1) \div 2

\* iN::to_le_bytes: two's complement
signed_to_le_bytes(v, n) ==
    to_le_bytes(IF v.neg THEN Negate(v.mag, n) ELSE v.mag, n)

\* iN::from_le_bytes: two's complement
signed_from_le_bytes(b) ==
    LET u == from_le_bytes(b)
    IN  IF SignBit(u, Len(b))
        THEN [neg |-> TRUE, mag |-> Negate(u, Len(b))]
        ELSE [neg |-> FALSE, mag |-> u]

(***************************************************************************)
(* Limb arithmetic used by the library calls below.                        *)
(***************************************************************************)
RECURSIVE LimbLess(_, _, _)
\* a < b for two limb sequences of one length, compared from limb i downwards
LimbLess(a, b, i) ==
    IF i = 0 THEN FALSE
    ELSE IF a[i] # b[i] THEN a[i] < b[i]
    ELSE LimbLess(a, b, i - 1)

RECURSIVE SubBorrow(_, _, _, _)
\* a - b (a >= b) over 16-bit limbs, from limb i upwards with borrow c
SubBorrow(a, b, c, i) ==
    IF i > Len(a) THEN a
    ELSE LET t == a[i] - b[i] - c
         IN  SubBorrow([a EXCEPT ![i] = IF t < 0 THEN t + 65536 ELSE t], b,
                       IF t < 0 THEN 1 ELSE 0, i + 1)

RECURSIVE DivMod(_, _)
\* <<a / b, a % b>> by repeated subtraction (the quotient is small)
DivMod(a, b) ==
    IF LimbLess(a, b, Len(a)) THEN <<0, a>>
    ELSE LET r == DivMod(SubBorrow(a, b, 0, 1), b)
         IN  <<r[1] + 1, r[2]>>

(***************************************************************************)
(* primitives.rs: booleans, integers, floats.                              *)
(***************************************************************************)
\* e.write_all(bytes)?; Ok(n)
write_all_ok(e, bytes, n) ==
    LET w == write_all(e, bytes)
    IN  IF w.tag # "Ok" THEN w ELSE Wrote(n, w.sink)

u8_strict_encode(v, e) == write_all_ok(e, <<v[1]>>, 1)

u8_strict_decode(d, pos) ==
    LET r == read_exact(d, pos, 1)
    IN  IF r.tag # "Ok" THEN r ELSE Ok(<<r.val[1]>>, r.pos)

bool_strict_encode(v, e) == u8_strict_encode(<<IF v THEN 1 ELSE 0>>, e)

\* bool decode taking every nonzero byte as true
bool_strict_decode_nonzero(d, pos) ==
    LET r == u8_strict_decode(d, pos)
    IN  IF r.tag # "Ok" THEN r ELSE Ok(r.val[1] # 0, r.pos)

bool_strict_decode(d, pos) ==
    LET r == u8_strict_decode(d, pos)
    IN  IF r.tag # "Ok" THEN r
        ELSE IF r.val[1] = 0 THEN Ok(FALSE, r.pos)
        ELSE IF r.val[1] = 1 THEN Ok(TRUE, r.pos)
        ELSE Err(ValueOutOfRange("boolean", 0, 1, r.val[1]), r.pos)

i8_strict_encode(v, e) == write_all_ok(e, signed_to_le_bytes(v, 1), 1)

i8_strict_decode(d, pos) ==
    LET r == read_exact(d, pos, 1)
    IN  IF r.tag # "Ok" THEN r ELSE Ok(signed_from_le_bytes(<<r.val[1]>>), r.pos)

u16_strict_encode(v, e) == write_all_ok(e, to_le_bytes(v, 2), 2)

u16_strict_decode(d, pos) ==
    LET r == read_exact(d, pos, 2)
    IN  IF r.tag # "Ok" THEN r ELSE Ok(from_le_bytes(r.val), r.pos)

i16_strict_encode(v, e) == write_all_ok(e, signed_to_le_bytes(v, 2), 2)

i16_strict_decode(d, pos) ==
    LET r == read_exact(d, pos, 2)
    IN  IF r.tag # "Ok" THEN r ELSE Ok(signed_from_le_bytes(r.val), r.pos)

\* u32 encode with to_be_bytes
u32_strict_encode_be(v, e) ==
    LET le == to_le_bytes(v, 4)
    IN  write_all_ok(e, <<le[4], le[3], le[2], le[1]>>, 4)

u32_strict_encode(v, e) == write_all_ok(e, to_le_bytes(v, 4), 4)

u32_strict_decode(d, pos) ==
    LET r == read_exact(d, pos, 4)
    IN  IF r.tag # "Ok" THEN r ELSE Ok(from_le_bytes(r.val), r.pos)

i32_strict_encode(v, e) == write_all_ok(e, signed_to_le_bytes(v, 4), 4)

i32_strict_decode(d, pos) ==
    LET r == read_exact(d, pos, 4)
    IN  IF r.tag # "Ok" THEN r ELSE Ok(signed_from_le_bytes(r.val), r.pos)

u64_strict_encode(v, e) == write_all_ok(e, to_le_bytes(v, 8), 8)

u64_strict_decode(d, pos) ==
    LET r == read_exact(d, pos, 8)
    IN  IF r.tag # "Ok" THEN r ELSE Ok(from_le_bytes(r.val), r.pos)

i64_strict_encode(v, e) == write_all_ok(e, signed_to_le_bytes(v, 8), 8)

\* i64 decode through u64::from_le_bytes: the sign bit read as magnitude
i64_strict_decode_unsigned(d, pos) ==
    LET r == read_exact(d, pos, 8)
    IN  IF r.tag # "Ok" THEN r
        ELSE Ok([neg |-> FALSE, mag |-> from_le_bytes(r.val)], r.pos)

i64_strict_decode(d, pos) ==
    LET r == read_exact(d, pos, 8)
    IN  IF r.tag # "Ok" THEN r ELSE Ok(signed_from_le_bytes(r.val), r.pos)

\* [u8; N]::strict_encode: the N bytes as they are, no length prefix
array_strict_encode(bytes, e) == write_all_ok(e, bytes, Len(bytes))

\* [u8; N]::strict_decode: exactly N bytes
array_strict_decode(n, d, pos) == read_exact(d, pos, n)

u128_strict_encode(v, e) == write_all_ok(e, to_le_bytes(v, 16), 16)

u128_strict_decode(d, pos) ==
    LET r == array_strict_decode(16, d, pos)
    IN  IF r.tag # "Ok" THEN r ELSE Ok(from_le_bytes(r.val), r.pos)

i128_strict_encode(v, e) == write_all_ok(e, signed_to_le_bytes(v, 16), 16)

i128_strict_decode(d, pos) ==
    LET r == array_strict_decode(16, d, pos)
    IN  IF r.tag # "Ok" THEN r ELSE Ok(signed_from_le_bytes(r.val), r.pos)

\* usize encode without the range check: the cast wraps
usize_strict_encode_wrapping(n, e) == u16_strict_encode(<<n % 65536>>, e)

\* usize encode testing the range only after the low 16 bits are written
usize_strict_encode_write_first(n, e) ==
    LET w == u16_strict_encode(<<n % 65536>>, e)
    IN  IF w.tag # "Ok" THEN w
        ELSE IF n > 65535 THEN WriteErr(ExceedMaxItems(n), w.sink)
        ELSE w

\* a usize is held as a plain number; `*self as u16` keeps the low 16 bits
usize_strict_encode(n, e) ==
    IF n > 65535 THEN WriteErr(ExceedMaxItems(n), e)
    ELSE u16_strict_encode(<<n % 65536>>, e)

usize_strict_decode(d, pos) ==
    LET r == u16_strict_decode(d, pos)
    IN  IF r.tag # "Ok" THEN r ELSE Ok(r.val[1], r.pos)

\* a float is held as its IEEE-754 bit pattern
f32_strict_encode(v, e) == write_all_ok(e, to_le_bytes(v, 4), 4)

f32_strict_decode(d, pos) ==
    LET r == read_exact(d, pos, 4)
    IN  IF r.tag # "Ok" THEN r ELSE Ok(from_le_bytes(r.val), r.pos)

f64_strict_encode(v, e) == write_all_ok(e, to_le_bytes(v, 8), 8)

f64_strict_decode(d, pos) ==
    LET r == read_exact(d, pos, 8)
    IN  IF r.tag # "Ok" THEN r ELSE Ok(from_le_bytes(r.val), r.pos)

(***************************************************************************)
(* primitives.rs: Duration.  A Duration is [secs, nanos] with nanos below  *)
(* one second.                                                             *)
(***************************************************************************)
\* NANOS_PER_SEC = 1_000_000_000 as a 32-bit limb pair
NANOS_PER_SEC == <<51712, 15258>>

\* core::time::Duration::new: whole seconds of `nanos` carry into `secs`;
\* panics when the sum leaves u64
Duration_new(secs, nanos) ==
    LET qr == DivMod(nanos, NANOS_PER_SEC)
        sum == AddCarry(secs, qr[1], 8, 1)
    IN  IF sum[2] # 0 THEN Panic("overflow in Duration::new")
        ELSE [tag |-> "Ok", val |-> [secs |-> sum[1], nanos |-> qr[2]]]

\* (u64, u32)::strict_encode: the two fields in order, lengths added
tuple_strict_encode(a, b, e) ==
    LET w1 == u64_strict_encode(a, e)
    IN  IF w1.tag # "Ok" THEN w1
        ELSE LET w2 == u32_strict_encode(b, w1.sink)
             IN  IF w2.tag # "Ok" THEN w2 ELSE Wrote(w1.n + w2.n, w2.sink)

Duration_strict_encode(v, e) ==
    tuple_strict_encode(v.secs, v.nanos, e)

\* Duration decode reading the nanoseconds before the seconds
Duration_strict_decode_nanos_first(d, pos) ==
    LET n == u32_strict_decode(d, pos)
    IN  IF n.tag # "Ok" THEN n
        ELSE LET s == u64_strict_decode(d, n.pos)
             IN  IF s.tag # "Ok" THEN s
                 ELSE LET v == Duration_new(s.val, n.val)
                      IN  IF v.tag = "Panic" THEN v ELSE Ok(v.val, s.pos)

Duration_strict_decode(d, pos) ==
    LET s == u64_strict_decode(d, pos)
    IN  IF s.tag # "Ok" THEN s
        ELSE LET n == u32_strict_decode(d, s.pos)
             IN  IF n.tag # "Ok" THEN n
                 ELSE LET v == Duration_new(s.val, n.val)
                      IN  IF v.tag = "Panic" THEN v ELSE Ok(v.val, n.pos)

(***************************************************************************)
(* primitives.rs, mod _chrono.  A date-time is [timestamp, nanos]: whole   *)
(* seconds since the epoch (signed) and the sub-second part.               *)
(***************************************************************************)
\* timestamps of chrono's last and first representable second
\* (+262143-12-31T23:59:59 and -262144-01-01T00:00:00)
MaxTimestamp == <<40703, 39915, 1911, 0>>

MinTimestampMag == <<59520, 36565, 1940, 0>>

\* NaiveDateTime::from_timestamp(secs, 0): panics on an out-of-range second
from_timestamp(secs) ==
    IF \/ (~secs.neg /\ LimbLess(MaxTimestamp, secs.mag, 4))
       \/ (secs.neg /\ LimbLess(MinTimestampMag, secs.mag, 4))
    THEN Panic("invalid or out-of-range datetime")
    ELSE [tag |-> "Ok", val |-> [timestamp |-> secs, nanos |-> 0]]

\* NaiveDateTime encode writing the timestamp as an unsigned magnitude
NaiveDateTime_strict_encode_unsigned(v, e) ==
    u64_strict_encode(v.timestamp.mag, e)

NaiveDateTime_strict_encode(v, e) == i64_strict_encode(v.timestamp, e)

NaiveDateTime_strict_decode(d, pos) ==
    LET r == i64_strict_decode(d, pos)
    IN  IF r.tag # "Ok" THEN r
        ELSE LET v == from_timestamp(r.val)
             IN  IF v.tag = "Panic" THEN v ELSE Ok(v.val, r.pos)

\* DateTime<Utc>: naive_utc() on encode, from_utc(naive, Utc) on decode
DateTimeUtc_strict_encode(v, e) == NaiveDateTime_strict_encode(v, e)

DateTimeUtc_strict_decode(d, pos) ==
    LET r == NaiveDateTime_strict_decode(d, pos)
    IN  IF r.tag # "Ok" THEN r ELSE Ok(r.val, r.pos)

(***************************************************************************)
(* amplify_types.rs: u256, u512, u1024.                                    *)
(***************************************************************************)
u256_strict_encode(v, e) == array_strict_encode(to_le_bytes(v, 32), e)

u256_strict_decode(d, pos) ==
    LET r == array_strict_decode(32, d, pos)
    IN  IF r.tag # "Ok" THEN r ELSE Ok(from_le_bytes(r.val), r.pos)

u512_strict_encode(v, e) ==
    LET bytes == to_le_bytes(v, 64)
    IN  write_all_ok(e, bytes, Len(bytes))

u512_strict_decode(d, pos) ==
    LET r == read_exact(d, pos, 64)
    IN  IF r.tag # "Ok" THEN r ELSE Ok(from_le_bytes(r.val), r.pos)

u1024_strict_encode(v, e) ==
    LET bytes == to_le_bytes(v, 128)
    IN  write_all_ok(e, bytes, Len(bytes))

u1024_strict_decode(d, pos) ==
    LET r == read_exact(d, pos, 128)
    IN  IF r.tag # "Ok" THEN r ELSE Ok(from_le_bytes(r.val), r.pos)

(***************************************************************************)
(* Library calls of the bitcoin and secp256k1 crates used by bitcoin.rs.   *)
(* Whether an X coordinate lies on the curve is a fact about the input     *)
(* that the model takes as given (oc).                                     *)
(***************************************************************************)
\* the order of the secp256k1 group, big-endian
CURVE_ORDER ==
    <<255, 255, 255, 255, 255, 255, 255, 255, 255, 255, 255, 255, 255, 255,
      255, 254, 186, 174, 220, 230, 175, 72, 160, 59, 191, 210, 94, 140, 208,
      54, 65, 65>>

RECURSIVE BytesLess(_, _, _)
\* a < b for two big-endian byte strings of one length, from byte i upwards
BytesLess(a, b, i) ==
    IF i > Len(a) THEN FALSE
    ELSE IF a[i] # b[i] THEN a[i] < b[i]
    ELSE BytesLess(a, b, i + 1)

\* secp256k1::SecretKey::from_slice: a scalar in 1 .. order-1
SecretKey_from_slice(buf) ==
    /\ Len(buf) = 32
    /\ ~IsZero(buf)
    /\ BytesLess(buf, CURVE_ORDER, 1)

\* the Y coordinate of the curve point with this X and this parity of Y.  The
\* curve equation is not evaluated: like the membership of X, the Y of an X
\* is taken as given, one 32-byte string for each X and parity whose last
\* bit is the parity
PublicKey_y(key) == SubSeq(key.x, 1, 31) \o <<IF key.odd THEN 1 ELSE 0>>

\* secp256k1::PublicKey::serialize: the parity marker and X
PublicKey_serialize(key) == <<IF key.odd THEN 3 ELSE 2>> \o key.x

\* secp256k1::PublicKey::serialize_uncompressed: 0x04, X and Y
PublicKey_serialize_uncompressed(key) == <<4>> \o key.x \o PublicKey_y(key)

\* secp256k1::PublicKey::from_slice on 33 bytes: parity marker 0x02 / 0x03 and
\* an X coordinate on the curve; on 65 bytes: marker 0x04 and a curve point,
\* an X on the curve with one of its two Y
PublicKey_from_slice(buf, oc) ==
    \/ Len(buf) = 33 /\ buf[1] \in {2, 3} /\ oc
    \/ /\ Len(buf) = 65
       /\ buf[1] = 4
       /\ oc
       /\ SubSeq(buf, 34, 65) =
             PublicKey_y([x |-> SubSeq(buf, 2, 33), odd |-> buf[65] % 2 = 1])

\* secp256k1::schnorrsig::PublicKey::from_slice: 32 bytes, X on the curve
XOnlyPublicKey_from_slice(buf, oc) == Len(buf) = 32 /\ oc

\* secp256k1::Signature::from_compact: r and s below the group order
Signature_from_compact(buf) ==
    /\ Len(buf) = 64
    /\ BytesLess(SubSeq(buf, 1, 32), CURVE_ORDER, 1)
    /\ BytesLess(SubSeq(buf, 33, 64), CURVE_ORDER, 1)

\* secp256k1::schnorrsig::Signature::from_slice: any 64 bytes
SchnorrSignature_from_slice(buf) == Len(buf) = 64

\* bech32::u5::try_from_u8: a value below 32
u5_try_from_u8(v) == v < 32

\* bitcoin::Network::from_magic, on the limbs of the magic
Network_from_magic(magic) ==
    CASE magic = <<48889, 55732>> -> "Bitcoin"
      [] magic = <<4363, 1801>> -> "Testnet"
      [] magic = <<778, 16591>> -> "Signet"
      [] magic = <<49146, 55989>> -> "Regtest"
      [] OTHER -> "None"

\* bip32::ExtendedPubKey::decode: version bytes of a known network and a
\* compressed public key in the last 33 bytes
ExtendedPubKey_decode(buf, oc) ==
    /\ SubSeq(buf, 1, 4) \in {<<4, 136, 178, 30>>, <<4, 53, 135, 207>>}
    /\ PublicKey_from_slice(SubSeq(buf, 46, 78), oc)

\* bip32::ExtendedPrivKey::decode: version bytes of a known network and a
\* secret key in the last 32 bytes
ExtendedPrivKey_decode(buf) ==
    /\ SubSeq(buf, 1, 4) \in {<<4, 136, 173, 228>>, <<4, 53, 131, 148>>}
    /\ SecretKey_from_slice(SubSeq(buf, 47, 78))

(***************************************************************************)
(* Codecs this file builds on that live in other modules of the crate.     *)
(***************************************************************************)
\* HashFixedBytes strategy, decode: exactly n raw bytes
hash_strict_decode(n, d, pos) == read_exact(d, pos, n)

\* Vec<u8>::strict_decode: a 16-bit count, then that many bytes
vec_u8_strict_decode(d, pos) ==
    LET c == usize_strict_decode(d, pos)
    IN  IF c.tag # "Ok" THEN c ELSE read_exact(d, c.pos, c.val)

(***************************************************************************)
(* bitcoin.rs: keys and signatures.                                        *)
(***************************************************************************)
SecretKey_strict_decode(d, pos) ==
    LET r == read_exact(d, pos, 32)
    IN  IF r.tag # "Ok" THEN r
        ELSE IF SecretKey_from_slice(r.val) THEN Ok(r.val, r.pos)
        ELSE Err(DataIntegrityError("invalid private key data"), r.pos)

\* PublicKey decode without the test of the marker byte
PublicKey_strict_decode_any_marker(d, pos, oc) ==
    LET r == read_exact(d, pos, 33)
    IN  IF r.tag # "Ok" THEN r
        ELSE IF PublicKey_from_slice(r.val, oc)
        THEN Ok([x |-> SubSeq(r.val, 2, 33), odd |-> r.val[1] = 3], r.pos)
        ELSE Err(DataIntegrityError("invalid public key data"), r.pos)

\* a public key is held as its X coordinate and the parity of Y
PublicKey_strict_decode(d, pos, oc) ==
    LET r == read_exact(d, pos, 33)
    IN  IF r.tag # "Ok" THEN r
        ELSE IF r.val[1] = 4
        THEN Err(DataIntegrityError("invalid public key data: uncompressed Secp256k1 public key format is not allowed, use compressed form instead"), r.pos)
        ELSE IF PublicKey_from_slice(r.val, oc)
        THEN Ok([x |-> SubSeq(r.val, 2, 33), odd |-> r.val[1] = 3], r.pos)
        ELSE Err(DataIntegrityError("invalid public key data"), r.pos)

\* X-only decode taking either parity marker of a compressed key
XOnlyPublicKey_strict_decode_any_parity(d, pos, oc) ==
    LET r == read_exact(d, pos, 33)
    IN  IF r.tag # "Ok" THEN r
        ELSE IF r.val[1] \notin {2, 3}
        THEN Err(DataIntegrityError("invalid public key data: BIP340 keys must be serialized with 0x02 prefix byte"), r.pos)
        ELSE IF XOnlyPublicKey_from_slice(SubSeq(r.val, 2, 33), oc)
        THEN Ok([x |-> SubSeq(r.val, 2, 33)], r.pos)
        ELSE Err(DataIntegrityError("invalid public key data"), r.pos)

XOnlyPublicKey_strict_decode(d, pos, oc) ==
    LET r == read_exact(d, pos, 33)
    IN  IF r.tag # "Ok" THEN r
        ELSE IF r.val[1] # 2
        THEN Err(DataIntegrityError("invalid public key data: BIP340 keys must be serialized with 0x02 prefix byte"), r.pos)
        ELSE IF XOnlyPublicKey_from_slice(SubSeq(r.val, 2, 33), oc)
        THEN Ok([x |-> SubSeq(r.val, 2, 33)], r.pos)
        ELSE Err(DataIntegrityError("invalid public key data"), r.pos)

\* Signature decode with read() in place of read_exact(): a short source
\* leaves the rest of the zeroed buffer untouched
Signature_strict_decode_zero_fill(d, pos) ==
    LET got == SubSeq(d, pos + 1, Min(Len(d), pos + 64))
        buf == got \o Tup([i \in 1..(64 - Len(got)) |-> 0])
    IN  IF Signature_from_compact(buf)
        THEN Ok([r |-> SubSeq(buf, 1, 32), s |-> SubSeq(buf, 33, 64)], pos + Len(got))
        ELSE Err(DataIntegrityError("Invalid secp256k1 ECDSA signature data"), pos + Len(got))

Signature_strict_decode(d, pos) ==
    LET r == read_exact(d, pos, 64)
    IN  IF r.tag # "Ok" THEN r
        ELSE IF Signature_from_compact(r.val)
        THEN Ok([r |-> SubSeq(r.val, 1, 32), s |-> SubSeq(r.val, 33, 64)], r.pos)
        ELSE Err(DataIntegrityError("Invalid secp256k1 ECDSA signature data"), r.pos)

SchnorrSignature_strict_decode(d, pos) ==
    LET r == read_exact(d, pos, 64)
    IN  IF r.tag # "Ok" THEN r
        ELSE IF SchnorrSignature_from_slice(r.val) THEN Ok(r.val, r.pos)
        ELSE Err(DataIntegrityError("Invalid secp256k1 Schnorr signature data"), r.pos)

\* format!("Invalid public key encoding flag {:#04x}; ...", invalid_flag)
InvalidKeyFlag(flag) ==
    [kind |-> "DataIntegrityError",
     msg |-> "Invalid public key encoding flag {:#04x}; must be either 0x02, 0x03 or 0x04",
     flag |-> flag]

\* bitcoin::PublicKey decode taking every marker other than 0x04 as that of a
\* compressed key
BitcoinPublicKey_strict_decode_any_flag(d, pos, oc) ==
    LET m == u8_strict_decode(d, pos)
    IN  IF m.tag # "Ok" THEN m
        ELSE IF m.val[1] = 4
        THEN LET r == read_exact(d, m.pos, 64)
             IN  IF r.tag # "Ok" THEN r
                 ELSE IF PublicKey_from_slice(<<m.val[1]>> \o r.val, oc)
                 THEN Ok([compressed |-> FALSE,
                          key |-> [x |-> SubSeq(r.val, 1, 32), odd |-> r.val[64] % 2 = 1]],
                         r.pos)
                 ELSE Err(DataIntegrityError("Wrong public key data sequence"), r.pos)
        ELSE LET r == read_exact(d, m.pos, 32)
             IN  IF r.tag # "Ok" THEN r
                 ELSE IF PublicKey_from_slice(<<m.val[1]>> \o r.val, oc)
                 THEN Ok([compressed |-> TRUE,
                          key |-> [x |-> r.val, odd |-> m.val[1] = 3]], r.pos)
                 ELSE Err(DataIntegrityError("Wrong public key data sequence"), r.pos)

\* the deprecated bitcoin::PublicKey, with its `compressed` flag
BitcoinPublicKey_strict_decode(d, pos, oc) ==
    LET m == u8_strict_decode(d, pos)
    IN  IF m.tag # "Ok" THEN m
        ELSE IF m.val[1] = 4
        THEN LET r == read_exact(d, m.pos, 64)
             IN  IF r.tag # "Ok" THEN r
                 ELSE IF PublicKey_from_slice(<<m.val[1]>> \o r.val, oc)
                 THEN Ok([compressed |-> FALSE,
                          key |-> [x |-> SubSeq(r.val, 1, 32), odd |-> r.val[64] % 2 = 1]],
                         r.pos)
                 ELSE Err(DataIntegrityError("Wrong public key data sequence"), r.pos)
        ELSE IF m.val[1] \in {2, 3}
        THEN LET r == read_exact(d, m.pos, 32)
             IN  IF r.tag # "Ok" THEN r
                 ELSE IF PublicKey_from_slice(<<m.val[1]>> \o r.val, oc)
                 THEN Ok([compressed |-> TRUE,
                          key |-> [x |-> r.val, odd |-> m.val[1] = 3]], r.pos)
                 ELSE Err(DataIntegrityError("Wrong public key data sequence"), r.pos)
        ELSE Err(InvalidKeyFlag(m.val[1]), m.pos)

(***************************************************************************)
(* bitcoin.rs: addresses, amounts, networks.                               *)
(***************************************************************************)
\* Payload decode with the version bound off by one
Payload_strict_decode_cap17(d, pos) ==
    LET t == u8_strict_decode(d, pos)
    IN  IF t.tag # "Ok" THEN t
        ELSE IF t.val[1] = 32
        THEN LET h == hash_strict_decode(20, d, t.pos)
             IN  IF h.tag # "Ok" THEN h
                 ELSE Ok([kind |-> "PubkeyHash", hash |-> h.val], h.pos)
        ELSE IF t.val[1] = 33
        THEN LET h == hash_strict_decode(20, d, t.pos)
             IN  IF h.tag # "Ok" THEN h
                 ELSE Ok([kind |-> "ScriptHash", hash |-> h.val], h.pos)
        ELSE IF t.val[1] <= 17
        THEN IF ~u5_try_from_u8(t.val[1]) THEN Panic("bech32::u8 decider is broken")
             ELSE LET p == vec_u8_strict_decode(d, t.pos)
                  IN  IF p.tag # "Ok" THEN p
                      ELSE Ok([kind |-> "WitnessProgram", version |-> t.val[1],
                               program |-> p.val], p.pos)
        ELSE Err(ValueOutOfRange("witness program version", 0, 17, t.val[1]), t.pos)

Payload_strict_decode(d, pos) ==
    LET t == u8_strict_decode(d, pos)
    IN  IF t.tag # "Ok" THEN t
        ELSE IF t.val[1] = 32
        THEN LET h == hash_strict_decode(20, d, t.pos)
             IN  IF h.tag # "Ok" THEN h
                 ELSE Ok([kind |-> "PubkeyHash", hash |-> h.val], h.pos)
        ELSE IF t.val[1] = 33
        THEN LET h == hash_strict_decode(20, d, t.pos)
             IN  IF h.tag # "Ok" THEN h
                 ELSE Ok([kind |-> "ScriptHash", hash |-> h.val], h.pos)
        ELSE IF t.val[1] <= 16
        THEN IF ~u5_try_from_u8(t.val[1]) THEN Panic("bech32::u8 decider is broken")
             ELSE LET p == vec_u8_strict_decode(d, t.pos)
                  IN  IF p.tag # "Ok" THEN p
                      ELSE Ok([kind |-> "WitnessProgram", version |-> t.val[1],
                               program |-> p.val], p.pos)
        ELSE Err(ValueOutOfRange("witness program version", 0, 17, t.val[1]), t.pos)

Network_strict_decode(d, pos) ==
    LET m == u32_strict_decode(d, pos)
    IN  IF m.tag # "Ok" THEN m
        ELSE IF Network_from_magic(m.val) # "None"
        THEN Ok(Network_from_magic(m.val), m.pos)
        ELSE Err(ValueOutOfRange("bitcoin::Network", 0, 0, m.val), m.pos)

\* Address { network, payload } once the network is read
Address_with(network, p) ==
    IF p.tag # "Ok" THEN p
    ELSE Ok([network |-> network, payload |-> p.val], p.pos)

Address_strict_decode(d, pos) ==
    LET n == Network_strict_decode(d, pos)
    IN  IF n.tag # "Ok" THEN n
        ELSE Address_with(n.val, Payload_strict_decode(d, n.pos))

Amount_strict_decode(d, pos) ==
    LET r == u64_strict_decode(d, pos)
    IN  IF r.tag # "Ok" THEN r ELSE Ok(r.val, r.pos)

(***************************************************************************)
(* bitcoin.rs: the encoders of keys, signatures, networks and addresses.   *)
(***************************************************************************)
\* `a? + b?`: the count n of the first write added to that of the second
add_written(n, w) == IF w.tag # "Ok" THEN w ELSE Wrote(n + w.n, w.sink)

\* HashFixedBytes encode writing the bytes in the order a hash is displayed
\* in, last byte first
hash_strict_encode_reversed(h, e) ==
    write_all_ok(e, Tup([i \in 1..Len(h) |-> h[Len(h) + 1 - i]]), Len(h))

\* HashFixedBytes strategy, encode: the raw bytes
hash_strict_encode(h, e) == write_all_ok(e, h, Len(h))

\* Vec<u8>::strict_encode: the count as usize, then the bytes
vec_u8_strict_encode(bytes, e) ==
    LET c == usize_strict_encode(Len(bytes), e)
    IN  IF c.tag # "Ok" THEN c
        ELSE add_written(c.n, write_all_ok(c.sink, bytes, Len(bytes)))

XOnlyPublicKey_strict_encode(v, e) ==
    LET w == write(e, <<2>>)
    IN  add_written(w.n, write(w.sink, v.x))

Signature_strict_encode(v, e) == write(e, v.r \o v.s)

SchnorrSignature_strict_encode(v, e) == write(e, v)

\* bitcoin::Network::magic, as the limbs of the u32
Network_magic(network) ==
    CASE network = "Bitcoin" -> <<48889, 55732>>
      [] network = "Testnet" -> <<4363, 1801>>
      [] network = "Signet" -> <<778, 16591>>
      [] network = "Regtest" -> <<49146, 55989>>

\* Network encode writing the magic most significant byte first
Network_strict_encode_be(v, e) == u32_strict_encode_be(Network_magic(v), e)

Network_strict_encode(v, e) == u32_strict_encode(Network_magic(v), e)

Payload_strict_encode(v, e) ==
    LET t == u8_strict_encode(<<CASE v.kind = "PubkeyHash" -> 32
                                  [] v.kind = "ScriptHash" -> 33
                                  [] v.kind = "WitnessProgram" -> v.version>>, e)
    IN  IF t.tag # "Ok" THEN t
        ELSE IF v.kind = "WitnessProgram"
        THEN add_written(t.n, vec_u8_strict_encode(v.program, t.sink))
        ELSE add_written(t.n, hash_strict_encode(v.hash, t.sink))

\* Address encode writing the payload before the network
Address_strict_encode_payload_first(v, e) ==
    LET p == Payload_strict_encode(v.payload, e)
    IN  IF p.tag # "Ok" THEN p
        ELSE add_written(p.n, Network_strict_encode(v.network, p.sink))

Address_strict_encode(v, e) ==
    LET n == Network_strict_encode(v.network, e)
    IN  IF n.tag # "Ok" THEN n
        ELSE add_written(n.n, Payload_strict_encode(v.payload, n.sink))

ChildNumber_strict_encode(v, e) ==
    LET t == u8_strict_encode(<<IF v.hardened THEN 1 ELSE 0>>, e)
    IN  IF t.tag # "Ok" THEN t
        ELSE add_written(t.n, u32_strict_encode(v.index, t.sink))

SecretKey_strict_encode(v, e) == write(e, v)

PublicKey_strict_encode(v, e) == write(e, PublicKey_serialize(v))

BitcoinPublicKey_strict_encode(v, e) ==
    IF v.compressed
    THEN write(e, PublicKey_serialize(v.key))
    ELSE write(e, PublicKey_serialize_uncompressed(v.key))

Amount_strict_encode(v, e) == u64_strict_encode(v, e)

(***************************************************************************)
(* amplify_types.rs: FlagVec.  A flag vector is held as its inner bytes,   *)
(* flag 8k + i being bit i of byte k.                                      *)
(***************************************************************************)
\* amplify::flags::FlagVec::shrunk: the bytes up to the last one that holds a
\* set flag
FlagVec_shrunk(v) ==
    IF IsZero(v) THEN <<>>
    ELSE SubSeq(v, 1, CHOOSE n \in 1..Len(v) :
                         v[n] # 0 /\ \A j \in (n + 1)..Len(v) : v[j] = 0)

FlagVec_strict_encode(v, e) == vec_u8_strict_encode(FlagVec_shrunk(v), e)

\* FlagVec::from_inner keeps the decoded bytes as they are
FlagVec_strict_decode(d, pos) ==
    LET r == vec_u8_strict_decode(d, pos)
    IN  IF r.tag # "Ok" THEN r ELSE Ok(r.val, r.pos)

(***************************************************************************)
(* bitcoin.rs: BIP32 derivation data.                                      *)
(***************************************************************************)
\* ChildNumber decode taking every nonzero tag as hardened
ChildNumber_strict_decode_nonzero_hardened(d, pos) ==
    LET t == u8_strict_decode(d, pos)
    IN  IF t.tag # "Ok" THEN t
        ELSE LET index == u32_strict_decode(d, t.pos)
             IN  IF index.tag # "Ok" THEN index
                 ELSE Ok([hardened |-> t.val[1] # 0, index |-> index.val], index.pos)

ChildNumber_strict_decode(d, pos) ==
    LET t == u8_strict_decode(d, pos)
    IN  IF t.tag # "Ok" THEN t
        ELSE LET index == u32_strict_decode(d, t.pos)
             IN  IF index.tag # "Ok" THEN index
                 ELSE IF t.val[1] = 0
                 THEN Ok([hardened |-> FALSE, index |-> index.val], index.pos)
                 ELSE IF t.val[1] = 1
                 THEN Ok([hardened |-> TRUE, index |-> index.val], index.pos)
                 ELSE Err(EnumValueNotKnown("bip32::ChildNumber", t.val[1]), index.pos)

ChainCode_strict_decode(d, pos) ==
    LET r == read_exact(d, pos, 32)
    IN  IF r.tag # "Ok" THEN r ELSE Ok(r.val, r.pos)

Fingerprint_strict_decode(d, pos) ==
    LET r == read_exact(d, pos, 4)
    IN  IF r.tag # "Ok" THEN r ELSE Ok(r.val, r.pos)

ExtendedPubKey_strict_decode(d, pos, oc) ==
    LET r == read_exact(d, pos, 78)
    IN  IF r.tag # "Ok" THEN r
        ELSE IF ExtendedPubKey_decode(r.val, oc) THEN Ok(r.val, r.pos)
        ELSE Err(DataIntegrityError("Extended pubkey integrity is broken"), r.pos)

ExtendedPrivKey_strict_decode(d, pos) ==
    LET r == read_exact(d, pos, 78)
    IN  IF r.tag # "Ok" THEN r
        ELSE IF ExtendedPrivKey_decode(r.val) THEN Ok(r.val, r.pos)
        ELSE Err(DataIntegrityError("Extended privkey integrity is broken"), r.pos)

ChainCode_strict_encode(v, e) == write(e, v)

Fingerprint_strict_encode(v, e) == write(e, v)

\* an extended key is held as the 78 bytes of its BIP32 serialization, which
\* is what self.encode() returns
ExtendedPubKey_strict_encode(v, e) == write(e, v)

ExtendedPrivKey_strict_encode(v, e) == write(e, v)

(***************************************************************************)
(* The types and T::strict_decode / strict_encode by type.                 *)
(***************************************************************************)
IntTypes == {"u8", "i8", "u16", "i16", "u32", "i32", "u64", "i64", "u128", "i128"}

SignedTypes == {"i8", "i16", "i32", "i64", "i128"}

WideTypes == {"u256", "u512", "u1024"}

PrimitiveTypes == IntTypes \cup {"bool", "usize", "f32", "f64", "Duration"}

ChronoTypes == {"NaiveDateTime", "DateTime<Utc>"}

CurveTypes == {"PublicKey", "XOnlyPublicKey", "bitcoin::PublicKey", "ExtendedPubKey"}

BitcoinTypes ==
    CurveTypes \cup
    {"SecretKey", "Signature", "SchnorrSignature", "Payload", "Network",
     "Address", "Amount", "ChildNumber", "ChainCode", "Fingerprint",
     "ExtendedPrivKey"}

\* the types declared with `type Strategy = strategies::HashFixedBytes`
HashTypes ==
    {"Txid", "Wtxid", "BlockHash", "XpubIdentifier", "PubkeyHash", "WPubkeyHash",
     "ScriptHash", "WScriptHash", "SigHash"}

\* the length of the inner byte array of a hash type: sha256d and sha256
\* hashes hold 32 bytes, hash160 hashes 20
HashLen(T) ==
    IF T \in {"XpubIdentifier", "PubkeyHash", "WPubkeyHash", "ScriptHash"}
    THEN 20 ELSE 32

\* the types with a decoder
Types ==
    PrimitiveTypes \cup ChronoTypes \cup WideTypes \cup BitcoinTypes \cup HashTypes
    \cup {"FlagVec"}

\* the bitcoin types whose encoder is modelled
BitcoinEncTypes ==
    {"XOnlyPublicKey", "Signature", "SchnorrSignature", "Network", "Payload",
     "Address", "ChildNumber", "SecretKey", "PublicKey", "bitcoin::PublicKey",
     "Amount", "ChainCode", "Fingerprint", "ExtendedPubKey", "ExtendedPrivKey"}

\* the types whose encoder is modelled
EncTypes ==
    PrimitiveTypes \cup ChronoTypes \cup WideTypes \cup BitcoinEncTypes
    \cup HashTypes \cup {"FlagVec"}

\* T::strict_decode(d) with the source at position pos
strict_decode(T, d, pos, oc) ==
    CASE T = "bool" -> bool_strict_decode(d, pos)
      [] T = "u8" -> u8_strict_decode(d, pos)
      [] T = "i8" -> i8_strict_decode(d, pos)
      [] T = "u16" -> u16_strict_decode(d, pos)
      [] T = "i16" -> i16_strict_decode(d, pos)
      [] T = "u32" -> u32_strict_decode(d, pos)
      [] T = "i32" -> i32_strict_decode(d, pos)
      [] T = "u64" -> u64_strict_decode(d, pos)
      [] T = "i64" -> i64_strict_decode(d, pos)
      [] T = "u128" -> u128_strict_decode(d, pos)
      [] T = "i128" -> i128_strict_decode(d, pos)
      [] T = "usize" -> usize_strict_decode(d, pos)
      [] T = "f32" -> f32_strict_decode(d, pos)
      [] T = "f64" -> f64_strict_decode(d, pos)
      [] T = "Duration" -> Duration_strict_decode(d, pos)
      [] T = "NaiveDateTime" -> NaiveDateTime_strict_decode(d, pos)
      [] T = "DateTime<Utc>" -> DateTimeUtc_strict_decode(d, pos)
      [] T = "u256" -> u256_strict_decode(d, pos)
      [] T = "u512" -> u512_strict_decode(d, pos)
      [] T = "u1024" -> u1024_strict_decode(d, pos)
      [] T = "SecretKey" -> SecretKey_strict_decode(d, pos)
      [] T = "PublicKey" -> PublicKey_strict_decode(d, pos, oc)
      [] T = "XOnlyPublicKey" -> XOnlyPublicKey_strict_decode(d, pos, oc)
      [] T = "Signature" -> Signature_strict_decode(d, pos)
      [] T = "SchnorrSignature" -> SchnorrSignature_strict_decode(d, pos)
      [] T = "bitcoin::PublicKey" -> BitcoinPublicKey_strict_decode(d, pos, oc)
      [] T = "Payload" -> Payload_strict_decode(d, pos)
      [] T = "Network" -> Network_strict_decode(d, pos)
      [] T = "Address" -> Address_strict_decode(d, pos)
      [] T = "Amount" -> Amount_strict_decode(d, pos)
      [] T = "ChildNumber" -> ChildNumber_strict_decode(d, pos)
      [] T = "ChainCode" -> ChainCode_strict_decode(d, pos)
      [] T = "Fingerprint" -> Fingerprint_strict_decode(d, pos)
      [] T = "ExtendedPubKey" -> ExtendedPubKey_strict_decode(d, pos, oc)
      [] T = "ExtendedPrivKey" -> ExtendedPrivKey_strict_decode(d, pos)
      [] T \in HashTypes -> hash_strict_decode(HashLen(T), d, pos)
      [] T = "FlagVec" -> FlagVec_strict_decode(d, pos)

\* v.strict_encode(e) for a value v of type T
strict_encode(T, v, e) ==
    CASE T = "bool" -> bool_strict_encode(v, e)
      [] T = "u8" -> u8_strict_encode(v, e)
      [] T = "i8" -> i8_strict_encode(v, e)
      [] T = "u16" -> u16_strict_encode(v, e)
      [] T = "i16" -> i16_strict_encode(v, e)
      [] T = "u32" -> u32_strict_encode(v, e)
      [] T = "i32" -> i32_strict_encode(v, e)
      [] T = "u64" -> u64_strict_encode(v, e)
      [] T = "i64" -> i64_strict_encode(v, e)
      [] T = "u128" -> u128_strict_encode(v, e)
      [] T = "i128" -> i128_strict_encode(v, e)
      [] T = "usize" -> usize_strict_encode(v, e)
      [] T = "f32" -> f32_strict_encode(v, e)
      [] T = "f64" -> f64_strict_encode(v, e)
      [] T = "Duration" -> Duration_strict_encode(v, e)
      [] T = "NaiveDateTime" -> NaiveDateTime_strict_encode(v, e)
      [] T = "DateTime<Utc>" -> DateTimeUtc_strict_encode(v, e)
      [] T = "u256" -> u256_strict_encode(v, e)
      [] T = "u512" -> u512_strict_encode(v, e)
      [] T = "u1024" -> u1024_strict_encode(v, e)
      [] T = "XOnlyPublicKey" -> XOnlyPublicKey_strict_encode(v, e)
      [] T = "Signature" -> Signature_strict_encode(v, e)
      [] T = "SchnorrSignature" -> SchnorrSignature_strict_encode(v, e)
      [] T = "Network" -> Network_strict_encode(v, e)
      [] T = "Payload" -> Payload_strict_encode(v, e)
      [] T = "Address" -> Address_strict_encode(v, e)
      [] T = "ChildNumber" -> ChildNumber_strict_encode(v, e)
      [] T = "SecretKey" -> SecretKey_strict_encode(v, e)
      [] T = "PublicKey" -> PublicKey_strict_encode(v, e)
      [] T = "bitcoin::PublicKey" -> BitcoinPublicKey_strict_encode(v, e)
      [] T = "Amount" -> Amount_strict_encode(v, e)
      [] T = "ChainCode" -> ChainCode_strict_encode(v, e)
      [] T = "Fingerprint" -> Fingerprint_strict_encode(v, e)
      [] T = "ExtendedPubKey" -> ExtendedPubKey_strict_encode(v, e)
      [] T = "ExtendedPrivKey" -> ExtendedPrivKey_strict_encode(v, e)
      [] T \in HashTypes -> hash_strict_encode(v, e)
      [] T = "FlagVec" -> FlagVec_strict_encode(v, e)

(***************************************************************************)
(* lib.rs: the byte-vector convenience entry points.                       *)
(***************************************************************************)
\* Result<T, Error> / Result<Vec<u8>, Error> handed back to the caller
ROk(v) == [tag |-> "Ok", val |-> v]

RErr(e) == [tag |-> "Err", err |-> e]

\* the vector a serialize call filled, or the encoder's error
into_vec(w) == IF w.tag # "Ok" THEN RErr(w.err) ELSE ROk(w.sink.buf)

\* the decoder's result as handed back, the position in the source dropped
into_result(r) ==
    IF r.tag = "Panic" THEN r
    ELSE IF r.tag # "Ok" THEN RErr(r.err)
    ELSE ROk(r.val)

\* check_consumed with the comparison of the position made before the
\* decoder's result is looked at
check_consumed_position_first(rv, len) ==
    IF rv.tag = "Panic" THEN rv
    ELSE IF rv.pos # len THEN RErr(DataNotEntirelyConsumed)
    ELSE IF rv.tag # "Ok" THEN RErr(rv.err)
    ELSE ROk(rv.val)

\* the decoder's result when `consumed` must equal the length of the data
check_consumed(rv, len) ==
    IF rv.tag = "Panic" THEN rv
    ELSE IF rv.tag # "Ok" THEN RErr(rv.err)
    ELSE LET consumed == rv.pos
         IN  IF consumed = len THEN ROk(rv.val)
             ELSE RErr(DataNotEntirelyConsumed)

\* StrictEncode::strict_serialize (trait method)
StrictEncode_strict_serialize(T, v) ==
    into_vec(strict_encode(T, v, VecSink(<<>>)))

\* StrictDecode::strict_deserialize (trait method)
StrictDecode_strict_deserialize(T, d, oc) ==
    into_result(strict_decode(T, d, 0, oc))

\* strict_serialize filling a buffer that still holds the bytes of the
\* output the caller kept
strict_serialize_reused_buffer(T, v) ==
    into_vec(strict_encode(T, v, VecSink(kept.bytes)))

\* strict_serialize (free function)
strict_serialize(T, v) ==
    into_vec(strict_encode(T, v, VecSink(<<>>)))

\* strict_deserialize without the comparison of `consumed` with the length
strict_deserialize_unchecked(T, d, oc) ==
    into_result(strict_decode(T, d, 0, oc))

\* strict_deserialize (free function)
strict_deserialize(T, d, oc) ==
    check_consumed(strict_decode(T, d, 0, oc), Len(d))

(***************************************************************************)
(* The explored inputs: byte strings and values.                           *)
(***************************************************************************)
\* the encoded sizes a type's inputs are built around
Sizes(T) ==
    CASE T \in {"bool", "u8", "i8"} -> {1}
      [] T \in {"u16", "i16", "usize"} -> {2}
      [] T \in {"u32", "i32", "f32", "Network", "Fingerprint"} -> {4}
      [] T \in {"u64", "i64", "f64", "NaiveDateTime", "DateTime<Utc>", "Amount"} -> {8}
      [] T \in {"u128", "i128"} -> {16}
      [] T = "Duration" -> {12}
      [] T \in {"u256", "SecretKey", "ChainCode"} -> {32}
      [] T = "u512" -> {64}
      [] T = "u1024" -> {128}
      [] T \in {"PublicKey", "XOnlyPublicKey"} -> {33, 65}
      [] T \in {"Signature", "SchnorrSignature"} -> {64}
      [] T = "bitcoin::PublicKey" -> {33, 65}
      [] T = "Payload" -> {3, 5, 21}
      [] T = "Address" -> {7, 9, 25}
      [] T = "ChildNumber" -> {5}
      [] T \in {"ExtendedPubKey", "ExtendedPrivKey"} -> {78}
      [] T \in HashTypes -> {HashLen(T)}
      [] T = "FlagVec" -> {2, 3, 4}

FirstBytes == {0, 1, 2, 3, 4, 16, 17, 32, 33, 255}

SecondBytes == {0, 2, 255}

FillBytes == {0, 255}

Tails == {<<>>, <<127>>, <<128>>}

Magics == {<<249, 190, 180, 217>>, <<11, 17, 9, 7>>, <<10, 3, 207, 64>>,
           <<250, 191, 181, 218>>, <<161, 162, 163, 164>>}

\* the leading bytes of the inputs of a type
Heads(T) ==
    {<<>>} \cup {<<a>> : a \in FirstBytes}
    \cup {<<a, b>> : a \in FirstBytes, b \in SecondBytes}
    \cup (CASE T = "Network" -> Magics
            [] T = "Address" -> {m \o <<a>> : m \in Magics, a \in {0, 16, 17, 32, 33}}
            [] T = "ExtendedPubKey" -> {<<4, 136, 178, 30>>, <<4, 53, 135, 207>>}
            [] T = "FlagVec" -> {<<1, 0, 5>>, <<2, 0, 5, 0>>, <<2, 0, 0, 128>>}
            [] T = "ExtendedPrivKey" -> {<<4, 136, 173, 228>>, <<4, 53, 131, 148>>}
            [] OTHER -> {})

Fill(f, m) == Tup([i \in 1..m |-> f])

\* lengths of the run of fill bytes: none, or up to one byte short of and
\* MaxExtra bytes past an encoded size
FillLens(T, used) ==
    {0} \cup {m \in {N + k - used : N \in Sizes(T), k \in -1..MaxExtra} : m >= 0}

SampleLimbs == {0, 1, 17830, 22270, 32767, 32768, 65535}

SampleBytes == {0, 1, 16, 127, 128, 255}

\* the unsigned integers of n bytes that are explored
UValues(n) ==
    IF n = 1 THEN {<<b>> : b \in SampleBytes}
    ELSE {Tup([i \in 1..NLimbs(n) |->
              IF i = 1 THEN lo ELSE IF i = NLimbs(n) THEN hi ELSE mid]) :
          lo \in SampleLimbs, mid \in {0, 65535}, hi \in SampleLimbs}

\* a sign and magnitude within iN: magnitude at most 2^(8n-1), reached only
\* by the negative minimum; zero is not negative
InSignedRange(v, n) ==
    LET top == v.mag[Len(v.mag)]
        half == (LimbMax(n) + 1) \div 2
    IN  /\ v.neg => ~IsZero(v.mag)
        /\ top <= half
        /\ top = half => (v.neg /\ \A i \in 1..(Len(v.mag) - 1) : v.mag[i] = 0)

SValues(n) ==
    {v \in [neg : BOOLEAN, mag : UValues(n)] : InSignedRange(v, n)}

ByteSize(T) == CHOOSE N \in Sizes(T) : TRUE

\* 32-byte big-endian scalars below the group order: zero, a middle value
\* and the order less one
SampleScalars ==
    {Fill(0, 32), Fill(127, 32), SubSeq(CURVE_ORDER, 1, 31) \o <<64>>}

Networks == {"Bitcoin", "Testnet", "Signet", "Regtest"}

\* the witness versions a bech32 u5 can hold that are explored
SampleVersions == {0, 1, 16, 17, 31}

SamplePrograms == {<<>>, <<0, 20>>, Fill(255, 20), Fill(7, 300)}

SamplePayloads ==
    {[kind |-> k, hash |-> Fill(f, 20)] :
        k \in {"PubkeyHash", "ScriptHash"}, f \in {0, 33}}
    \cup {[kind |-> "WitnessProgram", version |-> ver, program |-> prog] :
            ver \in SampleVersions, prog \in SamplePrograms}

\* public keys: an X coordinate and the parity of Y
SampleKeys == {[x |-> Fill(f, 32), odd |-> o] : f \in {2, 3, 255}, o \in BOOLEAN}

Values(T) ==
    CASE T = "bool" -> BOOLEAN
      [] T = "XOnlyPublicKey" -> {[x |-> Fill(f, 32)] : f \in {2, 3, 255}}
      [] T = "Signature" -> {[r |-> a, s |-> b] : a, b \in SampleScalars}
      [] T = "SchnorrSignature" ->
             {a \o b : a, b \in SampleScalars \cup {Fill(255, 32)}}
      [] T = "Network" -> Networks
      [] T = "Payload" -> SamplePayloads
      [] T = "Address" ->
             {[network |-> n, payload |-> p] : n \in Networks, p \in SamplePayloads}
      [] T = "ChildNumber" ->
             {[hardened |-> h, index |-> i] : h \in BOOLEAN, i \in UValues(4)}
      [] T = "SecretKey" -> SampleScalars \ {Fill(0, 32)}
      [] T = "FlagVec" ->
             {<<>>, <<5>>, <<5, 0>>, <<0, 0>>, <<0, 128>>, <<255, 0, 0>>,
              <<0, 1, 0, 0>>}
      [] T \in HashTypes ->
             {Fill(0, HashLen(T)), Fill(255, HashLen(T)),
              Tup([i \in 1..HashLen(T) |-> 7 * i])}
      [] T = "PublicKey" -> SampleKeys
      [] T = "bitcoin::PublicKey" ->
             {[compressed |-> c, key |-> k] : c \in BOOLEAN, k \in SampleKeys}
      [] T = "Amount" -> UValues(8)
      [] T = "ChainCode" -> {Fill(f, 32) : f \in {0, 7, 255}}
      [] T = "Fingerprint" -> {Fill(f, 4) : f \in {0, 7, 255}}
      [] T = "ExtendedPubKey" ->
             {ver \o Fill(0, 41) \o PublicKey_serialize(k) :
                 ver \in {<<4, 136, 178, 30>>, <<4, 53, 135, 207>>}, k \in SampleKeys}
      [] T = "ExtendedPrivKey" ->
             {ver \o Fill(0, 42) \o k :
                 ver \in {<<4, 136, 173, 228>>, <<4, 53, 131, 148>>},
                 k \in SampleScalars \ {Fill(0, 32)}}
      [] T \in SignedTypes -> SValues(ByteSize(T))
      [] T \in (IntTypes \ SignedTypes) \cup WideTypes \cup {"f32", "f64"} ->
             UValues(ByteSize(T))
      [] T = "usize" -> {0, 1, 54, 17830, 65535, 65536, 65537, 131071}
      [] T = "Duration" ->
             {[secs |-> s, nanos |-> n] :
                 s \in UValues(8), n \in {<<0, 0>>, <<1, 0>>, <<51711, 15258>>}}
      [] T \in ChronoTypes ->
             {[timestamp |-> t, nanos |-> n] :
                 t \in {v \in SValues(8) : v.mag[4] = 0 /\ v.mag[3] = 0}
                       \cup {[neg |-> FALSE, mag |-> MaxTimestamp],
                             [neg |-> TRUE, mag |-> MinTimestampMag]},
                 n \in {0, 38455567}}

Prefixes == {<<>>, <<170>>}

\* the lengths of the byte slices (&mut [u8]) that are encoded into
Rooms == {0, 1, 3, 4, 31, 32, 33, 63, 64, 65, 77, 78}

(***************************************************************************)
(* State: the last call made on the library and what it returned.          *)
(* op is the entry point, ty the type T, data / onCurve the decoder's      *)
(* input, value / sink0 the encoder's input, result what came back; kept   *)
(* is the outcome of an earlier encode call that the caller still holds.   *)
(* thread and heap are the calls that run side by side on threads of their *)
(* own and the byte vectors those calls allocated.                         *)
(***************************************************************************)
\* the threads that call the library side by side
Threads == {1, 2}

\* a thread with no call under way
IdleThread ==
    [pc |-> "idle", op |-> "none", ty |-> "none", value |-> <<>>, data |-> <<>>,
     pos |-> 0, result |-> [tag |-> "none"]]

NoSink == VecSink(<<>>)

\* nothing held by the caller
NoKept ==
    [ty |-> "none", value |-> <<>>, tag |-> "none", bytes |-> <<>>, n |-> 0,
     err |-> [kind |-> "none"]]

Init ==
    /\ op = "none"
    /\ ty = "none"
    /\ data = <<>>
    /\ onCurve = FALSE
    /\ value = <<>>
    /\ sink0 = NoSink
    /\ result = [tag |-> "none"]
    /\ kept = NoKept
    /\ thread = [t \in Threads |-> IdleThread]
    /\ heap = [t \in Threads |-> <<>>]

DecodeCall(name, T, d, oc, r) ==
    /\ op' = name
    /\ ty' = T
    /\ data' = d
    /\ onCurve' = oc
    /\ result' = r
    /\ UNCHANGED <<value, sink0, kept, thread, heap>>

EncodeCall(name, T, v, e, r) ==
    /\ op' = name
    /\ ty' = T
    /\ value' = v
    /\ sink0' = e
    /\ result' = r
    /\ UNCHANGED <<data, onCurve, kept, thread, heap>>

Oracle(T) == IF T \in CurveTypes THEN BOOLEAN ELSE {FALSE}

\* the byte strings handed to the decoder of T
Inputs(T) ==
    UNION {{h \o Fill(f, m) \o t : m \in FillLens(T, Len(h) + Len(t))} :
           h \in Heads(T), f \in FillBytes, t \in Tails}

\* a call is made only when none is outstanding
Idle == op = "none"

\* T::strict_decode(&data[..])
StrictDecode(TS) ==
    /\ Idle
    /\ \E T \in TS \cap Types :
         \E d \in Inputs(T), oc \in Oracle(T) :
           DecodeCall("strict_decode", T, d, oc, strict_decode(T, d, 0, oc))

\* T::strict_deserialize(data)
TraitDeserialize(TS) ==
    /\ Idle
    /\ \E T \in TS \cap Types :
         \E d \in Inputs(T), oc \in Oracle(T) :
           DecodeCall("StrictDecode::strict_deserialize", T, d, oc,
                      StrictDecode_strict_deserialize(T, d, oc))

\* strict_deserialize::<T>(data)
Deserialize(TS) ==
    /\ Idle
    /\ \E T \in TS \cap Types :
         \E d \in Inputs(T), oc \in Oracle(T) :
           DecodeCall("strict_deserialize", T, d, oc, strict_deserialize(T, d, oc))

\* v.strict_encode(&mut e) into a vector already holding some bytes
StrictEncode(TS) ==
    /\ Idle
    /\ \E T \in TS \cap EncTypes :
         \E v \in Values(T), pre \in Prefixes :
           EncodeCall("strict_encode", T, v, VecSink(pre),
                      strict_encode(T, v, VecSink(pre)))

\* v.strict_encode(&mut buf[..]) into a byte slice, which takes no more
\* bytes than it is long
StrictEncodeSlice(TS) ==
    /\ Idle
    /\ \E T \in TS \cap EncTypes :
         \E v \in Values(T), room \in Rooms :
           EncodeCall("strict_encode(slice)", T, v, SliceSink(<<>>, room),
                      strict_encode(T, v, SliceSink(<<>>, room)))

\* v.strict_serialize()
TraitSerialize(TS) ==
    /\ Idle
    /\ \E T \in TS \cap EncTypes :
         \E v \in Values(T) :
           EncodeCall("StrictEncode::strict_serialize", T, v, NoSink,
                      StrictEncode_strict_serialize(T, v))

\* strict_serialize(&v)
Serialize(TS) ==
    /\ Idle
    /\ \E T \in TS \cap EncTypes :
         \E v \in Values(T) :
           EncodeCall("strict_serialize", T, v, NoSink, strict_serialize(T, v))

\* the caller drops the result
Return ==
    /\ op # "none"
    /\ op' = "none"
    /\ ty' = "none"
    /\ data' = <<>>
    /\ onCurve' = FALSE
    /\ value' = <<>>
    /\ sink0' = NoSink
    /\ result' = [tag |-> "none"]
    /\ UNCHANGED <<kept, thread, heap>>

EncodeOps == {"strict_encode", "StrictEncode::strict_serialize", "strict_serialize"}

\* the bytes a strict_encode call added to its sink
Written == SubSeq(result.sink.buf, Len(sink0.buf) + 1, Len(result.sink.buf))

\* what the encode call handed to its caller: the bytes and their count, or
\* the error
Outcome ==
    IF result.tag # "Ok"
    THEN [ty |-> ty, value |-> value, tag |-> result.tag, bytes |-> <<>>, n |-> 0,
          err |-> result.err]
    ELSE IF op = "strict_encode"
    THEN [ty |-> ty, value |-> value, tag |-> "Ok", bytes |-> Written,
          n |-> result.n, err |-> [kind |-> "none"]]
    ELSE [ty |-> ty, value |-> value, tag |-> "Ok", bytes |-> result.val,
          n |-> Len(result.val), err |-> [kind |-> "none"]]

\* the caller keeps what an encode call returned and goes on
Keep ==
    /\ op \in EncodeOps
    /\ kept' = Outcome
    /\ op' = "none"
    /\ ty' = "none"
    /\ data' = <<>>
    /\ onCurve' = FALSE
    /\ value' = <<>>
    /\ sink0' = NoSink
    /\ result' = [tag |-> "none"]
    /\ UNCHANGED <<thread, heap>>

Next ==
    \/ StrictDecode(Types)
    \/ TraitDeserialize(Types)
    \/ Deserialize(Types)
    \/ StrictEncode(EncTypes)
    \/ StrictEncodeSlice(EncTypes)
    \/ TraitSerialize(EncTypes)
    \/ Serialize(EncTypes)
    \/ Return

Spec == Init /\ [][Next]_vars

\* the types explored when the caller holds on to earlier outputs
HistoryTypes == {"bool", "usize", "Network", "XOnlyPublicKey", "Payload"}

NextHistory ==
    \/ StrictDecode(HistoryTypes)
    \/ TraitDeserialize(HistoryTypes)
    \/ Deserialize(HistoryTypes)
    \/ StrictEncode(HistoryTypes)
    \/ TraitSerialize(HistoryTypes)
    \/ Serialize(HistoryTypes)
    \/ Return
    \/ Keep

SpecHistory == Init /\ [][NextHistory]_vars

(***************************************************************************)
(* Calls on several threads.  Each thread makes one call at a time through *)
(* strict_serialize or strict_deserialize; the calls of different threads  *)
(* advance in any order, a byte written or read at a time (every order of  *)
(* whole write and read calls is among these).  A call of strict_serialize *)
(* fills the vector it allocated, a call of strict_deserialize moves the   *)
(* cursor it made over the caller's data.                                  *)
(***************************************************************************)
\* the types whose calls run side by side
ThreadTypes == {"bool", "usize", "Network"}

\* the byte strings decoded side by side: encodings, alone and with a byte
\* left over, and some malformed or short strings
ThreadInputs(T) ==
    {<<>>, <<32>>, <<2, 0, 0, 0>>}
    \cup {strict_encode(T, v, NoSink).sink.buf \o t :
            v \in Values(T), t \in {<<>>, <<127>>}}

\* vector of the earlier thread taken by every call
encoder_of_static(t) == 1

\* the vector `vec![]` of strict_serialize on thread t: a fresh allocation,
\* owned by the call
encoder_of(t) == t

\* the bytes the encoder of the call writes, in order
ToWrite(c) == strict_encode(c.ty, c.value, NoSink).sink.buf

\* the bytes the decoder of the call reads
ToRead(c) == strict_decode(c.ty, c.data, 0, FALSE).pos

ThreadVars == <<op, ty, data, onCurve, value, sink0, result, kept>>

\* thread t calls strict_serialize(&v): the encoder's vector starts empty
ThreadSerialize ==
    \E t \in Threads :
        /\ thread[t].pc = "idle"
        /\ \E T \in ThreadTypes : \E v \in Values(T) :
             thread' = [thread EXCEPT ![t] =
                 [IdleThread EXCEPT !.pc = "running", !.op = "strict_serialize",
                                    !.ty = T, !.value = v]]
        /\ heap' = [heap EXCEPT ![encoder_of(t)] = <<>>]
        /\ UNCHANGED ThreadVars

\* thread t calls strict_deserialize::<T>(d): the cursor starts at 0
ThreadDeserialize ==
    \E t \in Threads :
        /\ thread[t].pc = "idle"
        /\ \E T \in ThreadTypes : \E d \in ThreadInputs(T) :
             thread' = [thread EXCEPT ![t] =
                 [IdleThread EXCEPT !.pc = "running", !.op = "strict_deserialize",
                                    !.ty = T, !.data = d]]
        /\ UNCHANGED <<heap, ThreadVars>>

\* the encoder on thread t writes its next byte to the call's vector
ThreadWrite ==
    \E t \in Threads :
        /\ thread[t].pc = "running"
        /\ thread[t].op = "strict_serialize"
        /\ thread[t].pos < Len(ToWrite(thread[t]))
        /\ heap' = [heap EXCEPT ![encoder_of(t)] =
                        @ \o <<ToWrite(thread[t])[thread[t].pos + 1]>>]
        /\ thread' = [thread EXCEPT ![t].pos = @ + 1]
        /\ UNCHANGED ThreadVars

\* the decoder on thread t reads its next byte through the call's cursor
ThreadRead ==
    \E t \in Threads :
        /\ thread[t].pc = "running"
        /\ thread[t].op = "strict_deserialize"
        /\ thread[t].pos < ToRead(thread[t])
        /\ thread' = [thread EXCEPT ![t].pos = @ + 1]
        /\ UNCHANGED <<heap, ThreadVars>>

\* strict_serialize on thread t returns the encoder's vector, moved out of
\* the call, or the error
ThreadSerializeReturn ==
    \E t \in Threads :
        /\ thread[t].pc = "running"
        /\ thread[t].op = "strict_serialize"
        /\ thread[t].pos = Len(ToWrite(thread[t]))
        /\ thread' = [thread EXCEPT
              ![t].pc = "done",
              ![t].result =
                  into_vec([strict_encode(thread[t].ty, thread[t].value, NoSink)
                               EXCEPT !.sink = VecSink(heap[encoder_of(t)])])]
        /\ heap' = [heap EXCEPT ![encoder_of(t)] = <<>>]
        /\ UNCHANGED ThreadVars

\* strict_deserialize on thread t compares its cursor with the length
ThreadDeserializeReturn ==
    \E t \in Threads :
        /\ thread[t].pc = "running"
        /\ thread[t].op = "strict_deserialize"
        /\ thread[t].pos = ToRead(thread[t])
        /\ thread' = [thread EXCEPT
              ![t].pc = "done",
              ![t].result =
                  check_consumed([strict_decode(thread[t].ty, thread[t].data, 0, FALSE)
                                     EXCEPT !.pos = thread[t].pos],
                                 Len(thread[t].data))]
        /\ UNCHANGED <<heap, ThreadVars>>

\* the caller on thread t takes the result
ThreadJoin ==
    \E t \in Threads :
        /\ thread[t].pc = "done"
        /\ thread' = [thread EXCEPT ![t] = IdleThread]
        /\ UNCHANGED <<heap, ThreadVars>>

NextThreads ==
    \/ ThreadSerialize
    \/ ThreadDeserialize
    \/ ThreadWrite
    \/ ThreadRead
    \/ ThreadSerializeReturn
    \/ ThreadDeserializeReturn
    \/ ThreadJoin

SpecThreads == Init /\ [][NextThreads]_vars

(***************************************************************************)
(* Properties.                                                             *)
(***************************************************************************)
DecodeOps == {"strict_decode", "StrictDecode::strict_deserialize", "strict_deserialize"}

\* what T::strict_decode returns on the input of the last call
Decoded == strict_decode(ty, data, 0, onCurve)

\* C1: the free function strict_deserialize returns Ok(v) only when
\* T::strict_decode succeeded with v and consumed every byte of data; when the
\* decode succeeds on fewer bytes it returns Err(DataNotEntirelyConsumed) and
\* no value.
C1_FullConsumption ==
    op = "strict_deserialize" =>
        /\ result.tag = "Ok" =>
              /\ Decoded.tag = "Ok"
              /\ Decoded.pos = Len(data)
              /\ result = ROk(Decoded.val)
        /\ (Decoded.tag = "Ok" /\ Decoded.pos < Len(data)) =>
              result = RErr(DataNotEntirelyConsumed)

C1_Witness ==
    /\ op = "strict_deserialize"
    /\ ty = "usize"
    /\ data = <<255, 255, 255, 127>>
    /\ result = RErr(DataNotEntirelyConsumed)

\* C2: the trait method StrictDecode::strict_deserialize fails with
\* DataNotEntirelyConsumed whenever the decode succeeds but bytes of data
\* remain unconsumed.
C2_TraitFullConsumption ==
    (/\ op = "StrictDecode::strict_deserialize"
     /\ Decoded.tag = "Ok"
     /\ Decoded.pos < Len(data)) =>
        result = RErr(DataNotEntirelyConsumed)

CanonicalTypes == IntTypes \cup {"bool", "usize", "Duration"}

\* C3: for bool, the integers, usize and Duration, when strict_decode returns
\* Ok(v) having consumed the first k bytes, strict_encode(v) succeeds and
\* produces exactly those k bytes.
C3_CanonicalDecode ==
    (op = "strict_decode" /\ ty \in CanonicalTypes /\ result.tag = "Ok") =>
        LET w == strict_encode(ty, result.val, VecSink(<<>>))
        IN  /\ w.tag = "Ok"
            /\ w.sink.buf = SubSeq(data, 1, result.pos)

\* C4: strict_decode returns Ok(value) or Err(error) on every input of every
\* type; it never panics.
C4_DecodeNeverPanics ==
    op \in DecodeOps => result.tag \in {"Ok", "Err"}

\* C5: for every value v of u8 .. i128, decoding the bytes strict_encode(v)
\* produced yields v and consumes exactly those bytes.
C5_IntRoundTrip ==
    (op = "strict_encode" /\ ty \in IntTypes) =>
        /\ result.tag = "Ok"
        /\ LET r == strict_decode(ty, Written, 0, FALSE)
           IN  /\ r.tag = "Ok"
               /\ r.val = value
               /\ r.pos = Len(Written)
               /\ r.pos = result.n

C5_Witness ==
    /\ op = "strict_encode"
    /\ ty = "i64"
    /\ value = [neg |-> TRUE, mag |-> <<0, 0, 0, 32768>>]
    /\ result.tag = "Ok"
    /\ Written = <<0, 0, 0, 0, 0, 0, 0, 128>>

\* byte i (from 0) of the number held in limbs u: (u >> 8i) mod 256
ByteOf(u, i) == (u[(i \div 2) + 1] \div (IF i % 2 = 0 THEN 1 ELSE 256)) % 256

RECURSIVE SumsToModulus(_, _, _, _, _)
\* a + b + c = 2^(8n), checked from limb i upwards
SumsToModulus(a, b, n, i, c) ==
    IF i > Len(a) THEN c = 1
    ELSE /\ (a[i] + b[i] + c) % (LimbMax(n) + 1) = 0
         /\ SumsToModulus(a, b, n, i + 1, (a[i] + b[i] + c) \div (LimbMax(n) + 1))

\* the number whose little-endian bytes are b
Image(b) ==
    Tup([j \in 1..NLimbs(Len(b)) |->
        b[2 * j - 1] + (IF 2 * j <= Len(b) THEN 256 * b[2 * j] ELSE 0)])

\* C6: an integer of w bits encodes as exactly w/8 bytes, byte i being
\* (v >> 8i) mod 256 of the value (of 2^w - |v| for a negative value), with no
\* length prefix, and strict_encode returns w/8.
C6_LittleEndianLayout ==
    (op = "strict_encode" /\ ty \in IntTypes \cup WideTypes) =>
        LET n == ByteSize(ty)
        IN  /\ result.tag = "Ok"
            /\ result.n = n
            /\ Len(Written) = n
            /\ ty \notin SignedTypes =>
                  \A i \in 0..(n - 1) : Written[i + 1] = ByteOf(value, i)
            /\ (ty \in SignedTypes /\ ~value.neg) =>
                  \A i \in 0..(n - 1) : Written[i + 1] = ByteOf(value.mag, i)
            /\ (ty \in SignedTypes /\ value.neg) =>
                  SumsToModulus(Image(Written), value.mag, n, 1, 0)
            /\ (ty = "u16" /\ value = <<17830>>) => Written = <<166, 69>>
            /\ (ty = "u32" /\ value = <<17830, 22270>>) => Written = <<166, 69, 254, 86>>
            /\ (ty = "i8" /\ value = [neg |-> TRUE, mag |-> <<127>>]) => Written = <<129>>

C6_Witness ==
    /\ op = "strict_encode"
    /\ ty = "u32"
    /\ value = <<17830, 22270>>
    /\ result.tag = "Ok"
    /\ Written = <<166, 69, 254, 86>>

\* C7: false encodes as the byte 0x00 and true as 0x01; decoding 0x00 yields
\* false, 0x01 yields true, and every other byte v fails with
\* ValueOutOfRange("boolean", 0..1, v).
C7_BooleanCodec ==
    /\ (op = "strict_encode" /\ ty = "bool") =>
          /\ result.tag = "Ok"
          /\ result.n = 1
          /\ Written = (IF value THEN <<1>> ELSE <<0>>)
    /\ (op = "strict_decode" /\ ty = "bool" /\ Len(data) >= 1) =>
          /\ data[1] = 0 => (result.tag = "Ok" /\ result.val = FALSE)
          /\ data[1] = 1 => (result.tag = "Ok" /\ result.val = TRUE)
          /\ data[1] >= 2 =>
                /\ result.tag = "Err"
                /\ result.err = ValueOutOfRange("boolean", 0, 1, data[1])

C7_Witness ==
    /\ op = "strict_decode"
    /\ ty = "bool"
    /\ data = <<32>>
    /\ result.tag = "Err"
    /\ result.err = ValueOutOfRange("boolean", 0, 1, 32)

\* C8: usize encode writes exactly the two little-endian bytes of n when
\* n <= 65535 and fails with ExceedMaxItems(n), writing nothing, when
\* n > 65535; it never wraps n modulo 2^16.
C8_UsizeEncode ==
    (op = "strict_encode" /\ ty = "usize") =>
        IF value <= 65535
        THEN /\ result.tag = "Ok"
             /\ result.n = 2
             /\ Written = <<value % 256, value \div 256>>
        ELSE /\ result.tag = "Err"
             /\ result.err = ExceedMaxItems(value)
             /\ result.sink = sink0

C8_Witness ==
    /\ op = "strict_encode"
    /\ ty = "usize"
    /\ value = 65536
    /\ result.tag = "Err"
    /\ result.err = ExceedMaxItems(65536)

FixedSizeTypes ==
    IntTypes \cup WideTypes \cup
    {"f32", "f64", "SecretKey", "PublicKey", "XOnlyPublicKey", "Signature",
     "SchnorrSignature", "ChainCode", "Fingerprint", "ExtendedPubKey",
     "ExtendedPrivKey"}

\* the number of bytes the encoding of a fixed-size type takes
EncodedSize(T) ==
    CASE T \in {"u8", "i8"} -> 1
      [] T \in {"u16", "i16"} -> 2
      [] T \in {"u32", "i32", "f32", "Fingerprint"} -> 4
      [] T \in {"u64", "i64", "f64"} -> 8
      [] T \in {"u128", "i128"} -> 16
      [] T \in {"u256", "SecretKey", "ChainCode"} -> 32
      [] T \in {"PublicKey", "XOnlyPublicKey"} -> 33
      [] T \in {"u512", "Signature", "SchnorrSignature"} -> 64
      [] T \in {"ExtendedPubKey", "ExtendedPrivKey"} -> 78
      [] T = "u1024" -> 128

\* C9: a fixed-size decoder given fewer bytes than its encoded size fails with
\* the I/O error UnexpectedEof and returns no value.
C9_TruncatedInput ==
    (op \in DecodeOps /\ ty \in FixedSizeTypes /\ Len(data) < EncodedSize(ty)) =>
        /\ result.tag = "Err"
        /\ result.err = IoError("UnexpectedEof")

C9_Witness ==
    /\ op = "strict_decode"
    /\ ty = "Signature"
    /\ Len(data) = 63
    /\ result.tag = "Err"
    /\ result.err = IoError("UnexpectedEof")

UncompressedNotAllowed ==
    DataIntegrityError("invalid public key data: uncompressed Secp256k1 public key format is not allowed, use compressed form instead")

\* C10 as stated: decoding a secp256k1::PublicKey from any input that begins
\* with the marker byte 0x04 fails with the DataIntegrityError that requires
\* the compressed form.
C10_AnyInput ==
    (/\ op \in DecodeOps
     /\ ty = "PublicKey"
     /\ Len(data) >= 1
     /\ data[1] = 4) =>
        (result.tag = "Err" /\ result.err = UncompressedNotAllowed)

\* C10 amended: decoding a secp256k1::PublicKey from any input of at least 33
\* bytes that begins with the marker byte 0x04 fails with the
\* DataIntegrityError that requires the compressed form.
C10_FullLengthInput ==
    (/\ op \in DecodeOps
     /\ ty = "PublicKey"
     /\ Len(data) >= 33
     /\ data[1] = 4) =>
        (result.tag = "Err" /\ result.err = UncompressedNotAllowed)

C10_Witness ==
    /\ op = "StrictDecode::strict_deserialize"
    /\ ty = "PublicKey"
    /\ Len(data) = 65
    /\ data[1] = 4
    /\ onCurve
    /\ result = RErr(UncompressedNotAllowed)

Bip340PrefixRequired ==
    DataIntegrityError("invalid public key data: BIP340 keys must be serialized with 0x02 prefix byte")

\* C11: an X-only public key encodes as 33 bytes, 0x02 and then the X
\* coordinate, and strict_encode returns 33; decoding 33 bytes that start with
\* any byte other than 0x02 fails with DataIntegrityError even when the other
\* 32 bytes are a valid X coordinate, and 0x02 before a valid X coordinate
\* decodes to the key with that coordinate.
C11_XOnlyKeyCodec ==
    /\ (op = "strict_encode" /\ ty = "XOnlyPublicKey") =>
          /\ result.tag = "Ok"
          /\ result.n = 33
          /\ Written = <<2>> \o value.x
    /\ (op \in DecodeOps /\ ty = "XOnlyPublicKey" /\ Len(data) = 33) =>
          /\ data[1] # 2 =>
                (result.tag = "Err" /\ result.err = Bip340PrefixRequired)
          /\ (data[1] = 2 /\ onCurve) =>
                (result.tag = "Ok" /\ result.val = [x |-> SubSeq(data, 2, 33)])

C11_Witness ==
    /\ op = "strict_decode"
    /\ ty = "XOnlyPublicKey"
    /\ Len(data) = 33
    /\ data[1] = 3
    /\ onCurve
    /\ result.tag = "Err"
    /\ result.err = Bip340PrefixRequired

SignatureTypes == {"Signature", "SchnorrSignature"}

\* C12 as stated: both signature decoders return Ok for every 64-byte input.
C12_Any64BytesAccepted ==
    (op \in DecodeOps /\ ty \in SignatureTypes /\ Len(data) = 64) =>
        result.tag = "Ok"

\* the signature kind other than T
OtherSignature(T) == IF T = "Signature" THEN "SchnorrSignature" ELSE "Signature"

\* C13 as stated: the 64 bytes strict_encode wrote for a signature of one kind
\* decode as the other kind, and encoding that decoded value gives the same
\* 64 bytes again.
C13_CrossTypeDecode ==
    (op = "strict_encode" /\ ty \in SignatureTypes) =>
        LET r == strict_decode(OtherSignature(ty), Written, 0, FALSE)
        IN  /\ r.tag = "Ok"
            /\ strict_encode(OtherSignature(ty), r.val, NoSink).sink.buf = Written

\* the count of program bytes a witness payload announces
ProgramLen(d) == d[2] + 256 * d[3]

\* a version byte, a 16-bit count and exactly that many program bytes
WellFormedWitness(d) == Len(d) >= 3 /\ Len(d) = 3 + ProgramLen(d)

WitnessVersionOutOfRange(v) ==
    ValueOutOfRange("witness program version", 0, 17, v)

\* the witness program with the version of the first byte
DecodesAsWitness ==
    /\ result.tag = "Ok"
    /\ result.val = [kind |-> "WitnessProgram", version |-> data[1],
                     program |-> SubSeq(data, 4, Len(data))]

\* C14 as stated: a payload with a version byte of 0..16 decodes as a witness
\* program of that version, and every first byte of 17 or above fails with
\* ValueOutOfRange("witness program version", 0..17, byte).
C14_EveryByteFrom17Fails ==
    (op \in DecodeOps /\ ty = "Payload" /\ Len(data) >= 1) =>
        /\ (data[1] <= 16 /\ WellFormedWitness(data)) => DecodesAsWitness
        /\ data[1] >= 17 =>
              (result.tag = "Err" /\ result.err = WitnessVersionOutOfRange(data[1]))

\* C14 amended: a payload with a version byte of 0..16 decodes as a witness
\* program of that version, and every first byte of 17 or above other than
\* the kind bytes 32 and 33 fails with
\* ValueOutOfRange("witness program version", 0..17, byte).
C14_WitnessVersionBoundary ==
    (op \in DecodeOps /\ ty = "Payload" /\ Len(data) >= 1) =>
        /\ (data[1] <= 16 /\ WellFormedWitness(data)) => DecodesAsWitness
        /\ (data[1] >= 17 /\ data[1] \notin {32, 33}) =>
              (result.tag = "Err" /\ result.err = WitnessVersionOutOfRange(data[1]))

C14_Witness ==
    /\ op = "strict_deserialize"
    /\ ty = "Payload"
    /\ data = <<17, 0, 0>>
    /\ result = RErr(WitnessVersionOutOfRange(17))

\* C15 as stated: every Payload value, a witness program of any 5-bit
\* version included, encodes successfully and the bytes written decode back
\* to it.
C15_PayloadRoundTrip ==
    (op = "strict_encode" /\ ty = "Payload") =>
        /\ result.tag = "Ok"
        /\ strict_decode("Payload", Written, 0, FALSE) = Ok(value, Len(Written))

\* the four bytes of a network's magic as they appear on the wire
MagicBytes(network) ==
    CASE network = "Bitcoin" -> <<249, 190, 180, 217>>
      [] network = "Testnet" -> <<11, 17, 9, 7>>
      [] network = "Signet" -> <<10, 3, 207, 64>>
      [] network = "Regtest" -> <<250, 191, 181, 218>>

\* the layout of a payload: kind byte and hash, or version byte, 16-bit
\* little-endian count and program
PayloadBytes(p) ==
    CASE p.kind = "PubkeyHash" -> <<32>> \o p.hash
      [] p.kind = "ScriptHash" -> <<33>> \o p.hash
      [] p.kind = "WitnessProgram" ->
             <<p.version, Len(p.program) % 256, Len(p.program) \div 256>>
             \o p.program

\* the variant the leading payload byte b selects
KindOf(b) ==
    CASE b = 32 -> "PubkeyHash"
      [] b = 33 -> "ScriptHash"
      [] b <= 16 -> "WitnessProgram"
      [] OTHER -> "none"

\* C16: an Address encodes as the 4-byte little-endian network magic and then
\* the payload (kind byte 32 or 33 and a 20-byte hash, or the version byte, a
\* 16-bit little-endian program length and the program); decode reads the
\* network and then the payload, whose first byte alone selects the variant.
C16_AddressLayout ==
    /\ (op = "strict_encode" /\ ty = "Address") =>
          /\ result.tag = "Ok"
          /\ Written = MagicBytes(value.network) \o PayloadBytes(value.payload)
          /\ result.n = Len(Written)
    /\ (op = "strict_encode" /\ ty = "Payload") =>
          /\ result.tag = "Ok"
          /\ Written = PayloadBytes(value)
          /\ result.n = Len(Written)
    /\ (op = "strict_decode" /\ ty = "Address" /\ result.tag = "Ok") =>
          /\ SubSeq(data, 1, 4) = MagicBytes(result.val.network)
          /\ result.val.payload.kind = KindOf(data[5])
          /\ SubSeq(data, 5, result.pos) = PayloadBytes(result.val.payload)
    /\ (op = "strict_decode" /\ ty = "Address" /\ Len(data) >= 5
           /\ KindOf(data[5]) = "none") => result.tag = "Err"

C16_Witness ==
    /\ op = "strict_encode"
    /\ ty = "Address"
    /\ value.network = "Testnet"
    /\ result.tag = "Ok"
    /\ Written = <<11, 17, 9, 7, 16, 20, 0>> \o Fill(255, 20)

UnknownChildNumber(tag) == EnumValueNotKnown("bip32::ChildNumber", tag)

\* tag byte 0 (normal) or 1 (hardened), then the index as 4 little-endian bytes
ChildNumberBytes(v) ==
    <<IF v.hardened THEN 1 ELSE 0>> \o Tup([i \in 1..4 |-> ByteOf(v.index, i - 1)])

\* C17 as stated: a ChildNumber encodes as its tag byte and the 4-byte
\* little-endian index, 5 bytes; decoding any input whose tag byte is neither
\* 0 nor 1 fails with EnumValueNotKnown("bip32::ChildNumber", tag).
C17_AnyInput ==
    /\ (op = "strict_encode" /\ ty = "ChildNumber") =>
          (result.tag = "Ok" /\ result.n = 5 /\ Written = ChildNumberBytes(value))
    /\ (op \in DecodeOps /\ ty = "ChildNumber" /\ Len(data) >= 1
           /\ data[1] \notin {0, 1}) =>
          (result.tag = "Err" /\ result.err = UnknownChildNumber(data[1]))

\* C17 amended: a ChildNumber encodes as its tag byte and the 4-byte
\* little-endian index, 5 bytes; decoding an input of at least 5 bytes whose
\* tag byte is neither 0 nor 1 fails with
\* EnumValueNotKnown("bip32::ChildNumber", tag).
C17_FullLengthInput ==
    /\ (op = "strict_encode" /\ ty = "ChildNumber") =>
          (result.tag = "Ok" /\ result.n = 5 /\ Written = ChildNumberBytes(value))
    /\ (op \in DecodeOps /\ ty = "ChildNumber" /\ Len(data) >= 5
           /\ data[1] \notin {0, 1}) =>
          (result.tag = "Err" /\ result.err = UnknownChildNumber(data[1]))

C17_Witness ==
    /\ op = "strict_decode"
    /\ ty = "ChildNumber"
    /\ Len(data) = 5
    /\ data[1] = 2
    /\ result.tag = "Err"
    /\ result.err = UnknownChildNumber(2)

\* C18: each network encodes as the four bytes of its magic, least
\* significant first, and decodes back to itself; four bytes that are no
\* known magic fail with ValueOutOfRange("bitcoin::Network", 0..0, magic).
C18_NetworkCodec ==
    /\ (op = "strict_encode" /\ ty = "Network") =>
          /\ result.tag = "Ok"
          /\ result.n = 4
          /\ Written = MagicBytes(value)
          /\ strict_decode("Network", Written, 0, FALSE) = Ok(value, 4)
    /\ (op \in DecodeOps /\ ty = "Network" /\ Len(data) = 4) =>
          IF \E n \in Networks : data = MagicBytes(n)
          THEN result.tag = "Ok" /\ data = MagicBytes(result.val)
          ELSE /\ result.tag = "Err"
               /\ result.err = ValueOutOfRange("bitcoin::Network", 0, 0, Image(data))

C18_Witness ==
    /\ op = "strict_decode"
    /\ ty = "Network"
    /\ data = <<161, 162, 163, 164>>
    /\ result.tag = "Err"
    /\ result.err = ValueOutOfRange("bitcoin::Network", 0, 0, <<41633, 42147>>)

\* the seconds as 8 little-endian bytes, then the nanoseconds as 4
DurationBytes(v) ==
    Tup([i \in 1..8 |-> ByteOf(v.secs, i - 1)])
    \o Tup([i \in 1..4 |-> ByteOf(v.nanos, i - 1)])

\* C20: a Duration encodes as exactly 12 bytes, the whole seconds as a
\* little-endian u64 and then the sub-second nanoseconds as a little-endian
\* u32, and decoding those bytes gives the Duration back.
C20_DurationCodec ==
    (op = "strict_encode" /\ ty = "Duration") =>
        /\ result.tag = "Ok"
        /\ result.n = 12
        /\ Written = DurationBytes(value)
        /\ strict_decode("Duration", Written, 0, FALSE) = Ok(value, 12)

C20_Witness ==
    /\ op = "strict_encode"
    /\ ty = "Duration"
    /\ value = [secs |-> <<1, 0, 0, 32768>>, nanos |-> <<51711, 15258>>]
    /\ result.tag = "Ok"
    /\ Written = <<1, 0, 0, 0, 0, 0, 0, 128, 255, 201, 154, 59>>

C29_ErrorPrecedence ==
    op = "strict_deserialize" =>
        /\ Decoded.tag = "Err" => result = RErr(Decoded.err)
        /\ result = RErr(DataNotEntirelyConsumed) =>
              (Decoded.tag = "Ok" /\ Decoded.pos < Len(data))

C29_Witness ==
    /\ op = "strict_deserialize"
    /\ ty = "bool"
    /\ data = <<32, 0>>
    /\ Decoded.pos < Len(data)
    /\ result = RErr(ValueOutOfRange("boolean", 0, 1, 32))

SerializeOps == {"StrictEncode::strict_serialize", "strict_serialize"}

\* C30: when usize strict_encode fails with ExceedMaxItems nothing has been
\* written, the sink holds what it held before the call; and a serialize call
\* whose encode fails returns the encoder's error and nothing else, no byte
\* vector.
C30_FailureLeavesSinkUntouched ==
    /\ (/\ op = "strict_encode"
        /\ ty = "usize"
        /\ result.tag = "Err"
        /\ result.err.kind = "ExceedMaxItems") =>
          /\ result.sink = sink0
          /\ Written = <<>>
    /\ (op = "strict_encode" /\ ty = "usize" /\ value > 65535) =>
          result.tag = "Err"
    /\ (op \in SerializeOps /\ strict_encode(ty, value, NoSink).tag = "Err") =>
          /\ result = RErr(strict_encode(ty, value, NoSink).err)
          /\ DOMAIN result = {"tag", "err"}

C30_Witness ==
    /\ op = "strict_encode"
    /\ ty = "usize"
    /\ value = 131071
    /\ sink0 = VecSink(<<170>>)
    /\ result = WriteErr(ExceedMaxItems(131071), VecSink(<<170>>))

\* the decoders that report ValueOutOfRange
RangedTypes == {"bool", "Payload", "Network"}

\* v lies in the half-open range lo..hi (Range<u128>: lo <= v < hi); an empty
\* range holds nothing
RangeContains(lo, hi, v) == lo < hi /\ lo <= v /\ v < hi

\* the ValueOutOfRange error the decoder of T builds, taken from its answer
\* to an input of 0xFF bytes
EmbeddedRange(T) == strict_decode(T, <<255, 255, 255, 255>>, 0, FALSE).err

\* the raw value the decoder of the last call tested: the leading byte, or
\* the magic as limbs
RawValue == IF ty = "Network" THEN from_le_bytes(SubSeq(data, 1, 4)) ELSE data[1]

\* C27 as stated: the half-open range a ValueOutOfRange error embeds is the
\* set of raw values its decoder accepts: the offending value lies outside
\* the range, and every raw value on which the decoder succeeds lies inside.
C27_RangeIsAcceptedSet ==
    (op = "strict_decode" /\ ty \in RangedTypes) =>
        /\ (result.tag = "Err" /\ result.err.kind = "ValueOutOfRange") =>
              ~RangeContains(result.err.lo, result.err.hi, result.err.v)
        /\ result.tag = "Ok" =>
              RangeContains(EmbeddedRange(ty).lo, EmbeddedRange(ty).hi, RawValue)

\* what the general secp256k1::PublicKey decoder returns on the input of the
\* last call; whether the X coordinate lies on the curve is the same fact
DecodedAsPublicKey == strict_decode("PublicKey", data, 0, onCurve)

\* C28 as stated: no byte string is accepted both by the X-only decoder and
\* by the general secp256k1::PublicKey decoder, and the bytes strict_encode
\* writes for an X-only key (a point of the curve) are rejected by the general
\* decoder.
C28_XOnlyDisjointFromGeneral ==
    /\ (op = "strict_decode" /\ ty = "XOnlyPublicKey" /\ result.tag = "Ok") =>
          DecodedAsPublicKey.tag # "Ok"
    /\ (op = "strict_encode" /\ ty = "XOnlyPublicKey" /\ result.tag = "Ok") =>
          strict_decode("PublicKey", Written, 0, TRUE).tag # "Ok"

\* C25: NaiveDateTime and DateTime<Utc> encode as exactly 8 bytes, the Unix
\* timestamp in whole seconds as a little-endian i64 (two's complement);
\* decoding those bytes yields the date-time of that second with a zero
\* sub-second part, which is the encoded date-time itself when it has no
\* sub-second part.
C25_DateTimeCodec ==
    (op = "strict_encode" /\ ty \in ChronoTypes) =>
        /\ result.tag = "Ok"
        /\ result.n = 8
        /\ Len(Written) = 8
        /\ ~value.timestamp.neg =>
              \A i \in 0..7 : Written[i + 1] = ByteOf(value.timestamp.mag, i)
        /\ value.timestamp.neg =>
              SumsToModulus(Image(Written), value.timestamp.mag, 8, 1, 0)
        /\ strict_decode(ty, Written, 0, FALSE) =
              Ok([timestamp |-> value.timestamp, nanos |-> 0], 8)
        /\ value.nanos = 0 => strict_decode(ty, Written, 0, FALSE).val = value

C25_Witness ==
    /\ op = "strict_encode"
    /\ ty = "DateTime<Utc>"
    /\ value = [timestamp |-> [neg |-> TRUE, mag |-> <<1, 0, 0, 0>>],
                nanos |-> 38455567]
    /\ result.tag = "Ok"
    /\ Written = <<255, 255, 255, 255, 255, 255, 255, 255>>

\* C23: bitcoin::PublicKey decode dispatches on the marker byte: 0x04 reads 64
\* further bytes (65 in all) and yields an uncompressed key, 0x02 or 0x03
\* reads 32 further bytes (33 in all) and yields a compressed key, any other
\* marker fails with the DataIntegrityError that names the flag, nothing
\* further being read; a valid marker followed by too few bytes fails with
\* UnexpectedEof; encode writes 33 bytes for a key flagged compressed and 65
\* otherwise, and decoding what it wrote gives the key back with its flag.
C23_BitcoinPublicKeyCodec ==
    /\ (op = "strict_decode" /\ ty = "bitcoin::PublicKey" /\ Len(data) >= 1) =>
          LET marker == data[1]
              total == IF marker = 4 THEN 65 ELSE 33
          IN  /\ (marker \in {2, 3, 4} /\ Len(data) < total) =>
                    /\ result.tag = "Err"
                    /\ result.err = IoError("UnexpectedEof")
              /\ (marker \in {2, 3, 4} /\ Len(data) >= total) =>
                    /\ result.pos = total
                    /\ result.tag = "Ok" => result.val.compressed = (marker # 4)
                    /\ result.tag = "Err" =>
                          result.err = DataIntegrityError("Wrong public key data sequence")
              /\ marker \notin {2, 3, 4} =>
                    result = Err(InvalidKeyFlag(marker), 1)
    /\ (op = "strict_encode" /\ ty = "bitcoin::PublicKey") =>
          LET size == IF value.compressed THEN 33 ELSE 65
          IN  /\ result.tag = "Ok"
              /\ result.n = size
              /\ Len(Written) = size
              /\ Written[1] = (IF ~value.compressed THEN 4
                               ELSE IF value.key.odd THEN 3 ELSE 2)
              /\ strict_decode(ty, Written, 0, TRUE) = Ok(value, size)

C23_Witness ==
    /\ op = "strict_decode"
    /\ ty = "bitcoin::PublicKey"
    /\ Len(data) = 33
    /\ data[1] = 255
    /\ result = Err(InvalidKeyFlag(255), 1)

\* the fixed-size domain types with an encoder
FixedSizeDomainTypes ==
    {"SecretKey", "PublicKey", "XOnlyPublicKey", "Signature", "SchnorrSignature",
     "ChainCode", "Fingerprint", "ExtendedPubKey", "ExtendedPrivKey"}

\* C26 as stated: whenever strict_encode of a fixed-size domain value returns
\* Ok(n), into a vector or into a byte slice that takes fewer bytes than it
\* is offered, n is the full encoded length of the type and the sink has
\* received every byte of the encoding.
C26_OkMeansComplete ==
    (/\ op \in {"strict_encode", "strict_encode(slice)"}
     /\ ty \in FixedSizeDomainTypes
     /\ result.tag = "Ok") =>
        /\ result.n = EncodedSize(ty)
        /\ Len(Written) = EncodedSize(ty)
        /\ Written = strict_encode(ty, value, NoSink).sink.buf

\* the number of bytes the claim gives for a hash type
FixedBytes(T) ==
    CASE T \in {"Txid", "Wtxid", "BlockHash", "SigHash", "WScriptHash"} -> 32
      [] T \in {"XpubIdentifier", "PubkeyHash", "WPubkeyHash", "ScriptHash"} -> 20

\* C22: for every type tagged HashFixedBytes, encode writes exactly the inner
\* bytes of the value in their stored order, with no prefix (32 bytes for Txid,
\* Wtxid, BlockHash, SigHash and WScriptHash, 20 for XpubIdentifier,
\* PubkeyHash, WPubkeyHash and ScriptHash), and decode reads exactly that many
\* bytes and returns the value whose inner bytes they are, whatever the bytes.
C22_FixedBytePassthrough ==
    /\ (op = "strict_encode" /\ ty \in HashTypes) =>
          /\ result.tag = "Ok"
          /\ result.n = FixedBytes(ty)
          /\ Written = value
          /\ Len(Written) = FixedBytes(ty)
    /\ (op = "strict_decode" /\ ty \in HashTypes /\ Len(data) >= FixedBytes(ty)) =>
          result = Ok(SubSeq(data, 1, FixedBytes(ty)), FixedBytes(ty))
    /\ (op = "strict_decode" /\ ty \in HashTypes /\ Len(data) < FixedBytes(ty)) =>
          result.tag = "Err"

C22_Witness ==
    /\ op = "strict_encode"
    /\ ty = "PubkeyHash"
    /\ value = Tup([i \in 1..20 |-> 7 * i])
    /\ sink0 = VecSink(<<170>>)
    /\ result.tag = "Ok"
    /\ result.sink.buf = <<170>> \o value

\* b holds the flags of v in the fewest bytes: b has no trailing zero byte and
\* v is b followed by zero bytes only
MinimalFlags(b, v) ==
    /\ Len(b) <= Len(v)
    /\ b = SubSeq(v, 1, Len(b))
    /\ \A i \in (Len(b) + 1)..Len(v) : v[i] = 0
    /\ Len(b) > 0 => b[Len(b)] # 0

\* C21 as stated: FlagVec encode writes the minimal byte representation of
\* the flags, with no trailing zero byte, behind its 16-bit length; and for
\* every input FlagVec decode accepts, encoding the decoded value yields
\* exactly the bytes that were decoded, so that a representation with
\* trailing zero bytes is not accepted.
C21_FlagVecCanonical ==
    /\ (op = "strict_encode" /\ ty = "FlagVec") =>
          /\ result.tag = "Ok"
          /\ result.n = Len(Written)
          /\ Len(Written) >= 2
          /\ Written[1] + 256 * Written[2] = Len(Written) - 2
          /\ MinimalFlags(SubSeq(Written, 3, Len(Written)), value)
    /\ (op = "strict_decode" /\ ty = "FlagVec" /\ result.tag = "Ok") =>
          strict_encode("FlagVec", result.val, NoSink).sink.buf =
              SubSeq(data, 1, result.pos)

\* C24: whatever the order in which the steps of the calls on different
\* threads are taken, a call that has returned has returned what the same
\* call returns when it runs alone, and a strict_serialize call under way
\* has written to its vector the bytes it writes when it runs alone.
C24_ConcurrentIndependence ==
    \A t \in Threads :
        /\ (thread[t].pc = "done" /\ thread[t].op = "strict_serialize") =>
              thread[t].result = strict_serialize(thread[t].ty, thread[t].value)
        /\ (thread[t].pc = "done" /\ thread[t].op = "strict_deserialize") =>
              thread[t].result = strict_deserialize(thread[t].ty, thread[t].data, FALSE)
        /\ (thread[t].pc = "running" /\ thread[t].op = "strict_serialize") =>
              heap[encoder_of(t)] = SubSeq(ToWrite(thread[t]), 1, thread[t].pos)

\* a call has returned on one thread while a call on the other, begun
\* before that return, is part of the way through its writes
C24_Witness ==
    /\ thread[1].pc = "done"
    /\ thread[1].op = "strict_serialize"
    /\ thread[1].ty = "Network"
    /\ thread[1].result = ROk(<<249, 190, 180, 217>>)
    /\ thread[2].pc = "running"
    /\ thread[2].op = "strict_serialize"
    /\ thread[2].ty = "usize"
    /\ thread[2].pos = 1
    /\ heap[2] = <<255>>

====
